---- MODULE Spec2Model ----
(***************************************************************************)
(* A model of druid's widget-content machinery (widget/content.rs): the    *)
(* Content trait and its four implementations StaticContent,               *)
(* ForEachContent, ComposedContent and ConditionalContent.                 *)
(*                                                                         *)
(* A content value is a tree, written here as nested records.  A pod       *)
(* (EnsuredPod / WidgetPod) is modelled by its identity, a number handed   *)
(* out once by a counter, as WidgetPod::new does with WidgetId::next().    *)
(* Option<X> is a sequence of length at most one.                          *)
(*                                                                         *)
(* After it come the Scope widget (widget/scope.rs), the BindingHost widget *)
(* (widget/binding.rs), alone, over a pair of bindings and over bindings   *)
(* of every kind (with ScrollToProperty of widget/scroll.rs), the Tabs     *)
(* widget (widget/tabs.rs) with the hit test of its TabBar, and the        *)
(* sub-window port and host (widget/sub_window.rs), each with its own      *)
(* specifications.                                                         *)
(***************************************************************************)
EXTENDS Integers, Sequences, FiniteSets, TLC

(***************************************************************************)
(* Bounds of the model.                                                    *)
(***************************************************************************)
\* keys the keys-from-data closure may return are 1..NumKeys
NumKeys == 2
\* longest key sequence a data value carries
MaxLen == 2
\* pods ever created in one run
MaxPods == 5

Keys == 1..NumKeys

None == <<>>

Some(x) == <<x>>

\* Sequences over S of length at most n.
SeqUpTo(S, n) == UNION {[1..m -> S] : m \in 0..n}

Range(s) == {s[i] : i \in 1..Len(s)}

(***************************************************************************)
(* The application data T.  The closures handed to the content             *)
(* constructors read it: the key list and two flags.                       *)
(***************************************************************************)
Data == [keys : SeqUpTo(Keys, MaxLen), flag : BOOLEAN]

\* Data::same may be conservative: it never reports different values as the
\* same, but it may report equal values as different (pointer comparison).
SameOutcomes(old_data, data) == IF old_data = data THEN {TRUE, FALSE} ELSE {FALSE}

\* values_from_data closures (ValuesFromData): the key sequence for a data value.
ValuesFromData(f, data) ==
    CASE f = "keys" -> data.keys
      [] OTHER -> <<>>

\* condition closures (Predicate).
Condition(p, data) ==
    CASE p = "flag" -> data.flag
      [] p = "nonempty" -> Len(data.keys) > 0
      [] OTHER -> FALSE

(***************************************************************************)
(* Constructors.                                                           *)
(***************************************************************************)
\* StaticContent::default
StaticDefault == [kind |-> "Static", children |-> <<>>]

\* ForEachContent::new
ForEachNew(f) ==
    [kind |-> "ForEach", values_from_data |-> f, values |-> <<>>,
     child_widgets |-> [k \in Keys |-> None]]

\* ComposedContent::new
ComposedNew(c1, c2) == [kind |-> "Composed", content1 |-> c1, content2 |-> c2]

\* CondBranch::new
CondBranchNew(und) == [und |-> und, shown |-> FALSE]

\* ConditionalContent::new_if_else
NewIfElse(p, ct, cf) ==
    [kind |-> "Conditional", condition |-> p, true_br |-> CondBranchNew(ct),
     false_br |-> CondBranchNew(cf), current |-> None]

\* ConditionalContent::new_if
NewIf(p, ct) == NewIfElse(p, ct, StaticDefault)

(***************************************************************************)
(* The call log of one operation: which Content methods ran on which node  *)
(* of the tree (named by its path from the root) and what they returned.   *)
(***************************************************************************)
Entry(call, path, ret, key) == [call |-> call, path |-> path, ret |-> ret, key |-> key]

(***************************************************************************)
(* The read operations of the Content trait: len, child_mut, last_child,   *)
(* is_empty.  Indices are usize values, counted from 0.                    *)
(***************************************************************************)
RECURSIVE ContentLen(_), ChildMut(_, _), LastChild(_)

\* StaticContent::len
StaticLen(c) == Len(c.children)

\* StaticContent::child_mut: Vec::get_mut
StaticChildMut(c, idx) ==
    IF idx < Len(c.children) THEN Some(c.children[idx + 1]) ELSE None

\* StaticContent::last_child: slice::last
StaticLastChild(c) ==
    IF Len(c.children) = 0 THEN None ELSE Some(c.children[Len(c.children)])

\* ForEachContent::len
ForEachLen(c) == Len(c.values)

\* ForEachContent::child_mut: the key at idx, then the map's entry for it
ForEachChildMut(c, idx) ==
    IF idx < Len(c.values) THEN c.child_widgets[c.values[idx + 1]] ELSE None

\* ForEachContent::last_child
ForEachLastChild(c) ==
    IF Len(c.values) = 0 THEN None ELSE c.child_widgets[c.values[Len(c.values)]]

\* ComposedContent::child_mut: which operand an index belongs to
ComposedInFirst(idx, len1) == idx < len1

\* A faulty variant of ComposedSecondIdx: the index is passed on without subtracting
\* the first operand's length.
ComposedSecondIdxRaw(idx, len1) == idx

\* ComposedContent::child_mut: the index handed to the second operand
ComposedSecondIdx(idx, len1) == idx - len1

\* ComposedContent::len
ComposedLen(c) == ContentLen(c.content1) + ContentLen(c.content2)

\* ComposedContent::child_mut
ComposedChildMut(c, idx) ==
    LET len1 == ContentLen(c.content1)
    IN  IF ComposedInFirst(idx, len1)
        THEN ChildMut(c.content1, idx)
        ELSE ChildMut(c.content2, ComposedSecondIdx(idx, len1))

\* A faulty variant of ComposedLastChild: the first operand's last child is
\* preferred to the second's.
ComposedLastChildOfFirst(c) ==
    LET l1 == LastChild(c.content1)
    IN  IF l1 # None THEN l1 ELSE LastChild(c.content2)

\* ComposedContent::last_child: the second operand's, or else the first's
ComposedLastChild(c) ==
    LET l2 == LastChild(c.content2)
    IN  IF l2 # None THEN l2 ELSE LastChild(c.content1)

\* ConditionalContent: the branch that `current` selects, as an Option
CurrentBranch(c) ==
    IF c.current = None THEN None
    ELSE IF c.current[1] THEN Some(c.true_br) ELSE Some(c.false_br)

\* ConditionalContent::len
ConditionalLen(c) ==
    IF CurrentBranch(c) = None THEN 0 ELSE ContentLen(CurrentBranch(c)[1].und)

\* ConditionalContent::child_mut
ConditionalChildMut(c, idx) ==
    IF CurrentBranch(c) = None THEN None ELSE ChildMut(CurrentBranch(c)[1].und, idx)

\* ConditionalContent::last_child
ConditionalLastChild(c) ==
    IF CurrentBranch(c) = None THEN None ELSE LastChild(CurrentBranch(c)[1].und)

ContentLen(c) ==
    CASE c.kind = "Static" -> StaticLen(c)
      [] c.kind = "ForEach" -> ForEachLen(c)
      [] c.kind = "Composed" -> ComposedLen(c)
      [] c.kind = "Conditional" -> ConditionalLen(c)

ChildMut(c, idx) ==
    CASE c.kind = "Static" -> StaticChildMut(c, idx)
      [] c.kind = "ForEach" -> ForEachChildMut(c, idx)
      [] c.kind = "Composed" -> ComposedChildMut(c, idx)
      [] c.kind = "Conditional" -> ConditionalChildMut(c, idx)

LastChild(c) ==
    CASE c.kind = "Static" -> StaticLastChild(c)
      [] c.kind = "ForEach" -> ForEachLastChild(c)
      [] c.kind = "Composed" -> ComposedLastChild(c)
      [] c.kind = "Conditional" -> ConditionalLastChild(c)

\* Content::is_empty
IsEmpty(c) == ContentLen(c) = 0

\* ContentExt::for_each_child: the pods f is called with, in call order
RECURSIVE ForEachChildFrom(_, _)
ForEachChildFrom(c, idx) ==
    IF idx >= ContentLen(c) THEN <<>>
    ELSE ChildMut(c, idx) \o ForEachChildFrom(c, idx + 1)

ForEachChild(c) == ForEachChildFrom(c, 0)

(***************************************************************************)
(* The mutating operations.  They thread st = [next, log]: the pod         *)
(* counter and the call log.                                               *)
(***************************************************************************)
RECURSIVE AddChildWidget(_, _), ContentAdded(_, _, _, _), Update(_, _, _, _, _, _)

Logged(st, e) == [st EXCEPT !.log = Append(@, e)]

\* StaticContent::add_child_widget: push, true
StaticAddChildWidget(c, cw) ==
    [c |-> [c EXCEPT !.children = Append(@, cw)], ret |-> TRUE]

\* ForEachContent::add_child_widget and ConditionalContent::add_child_widget
RejectChildWidget(c, cw) == [c |-> c, ret |-> FALSE]

\* A faulty variant of ComposedAddChildWidget: the first operand takes the pod.
ComposedAddChildWidgetFirst(c, cw) ==
    LET r == AddChildWidget(c.content1, cw)
    IN  [c |-> [c EXCEPT !.content1 = r.c], ret |-> r.ret]

\* ComposedContent::add_child_widget: the second operand takes it
ComposedAddChildWidget(c, cw) ==
    LET r == AddChildWidget(c.content2, cw)
    IN  [c |-> [c EXCEPT !.content2 = r.c], ret |-> r.ret]

AddChildWidget(c, cw) ==
    CASE c.kind = "Static" -> StaticAddChildWidget(c, cw)
      [] c.kind = "ForEach" -> RejectChildWidget(c, cw)
      [] c.kind = "Composed" -> ComposedAddChildWidget(c, cw)
      [] c.kind = "Conditional" -> RejectChildWidget(c, cw)

\* A faulty variant of Occupied: HashMap::insert in place of entry().or_insert_with(),
\* every key of the sequence gets a new pod.
OccupiedNever(slot) == FALSE

\* HashMap::entry(..).or_insert_with: is the slot of the key taken?
Occupied(slot) == slot # None

\* ForEachContent::update_impl, the loop over new_values from position i:
\* a key without a pod gets one from make_widget (EnsuredPod::new, a fresh id).
RECURSIVE InsertAll(_, _, _, _, _)
InsertAll(cw, new_values, i, path, st) ==
    IF i > Len(new_values) THEN [cw |-> cw, st |-> st]
    ELSE LET value == new_values[i]
         IN  IF Occupied(cw[value])
             THEN InsertAll(cw, new_values, i + 1, path, st)
             ELSE InsertAll([cw EXCEPT ![value] = Some(st.next)], new_values, i + 1, path,
                            [next |-> st.next + 1,
                             log |-> Append(st.log, Entry("make_widget", path, FALSE, value))])

\* ForEachContent::update_impl, its last line: new_values (now the old ones,
\* after the swap) == self.values
UpdateImplResult(old_values, values) == old_values = values

\* A faulty variant of ForEachUpdateImpl: the map is pruned to the keys of the new
\* sequence (HashMap::retain), pods of vanished keys are dropped.
ForEachUpdateImplDropping(c, data, path, st) ==
    LET new_values == ValuesFromData(c.values_from_data, data)
        ins == InsertAll(c.child_widgets, new_values, 1, path, st)
    IN  [c |-> [c EXCEPT !.child_widgets =
                      [k \in Keys |-> IF k \in Range(new_values) THEN ins.cw[k] ELSE None],
                         !.values = new_values],
         ret |-> UpdateImplResult(c.values, new_values),
         st |-> ins.st]

\* ForEachContent::update_impl
ForEachUpdateImpl(c, data, path, st) ==
    LET new_values == ValuesFromData(c.values_from_data, data)
        ins == InsertAll(c.child_widgets, new_values, 1, path, st)
    IN  [c |-> [c EXCEPT !.child_widgets = ins.cw, !.values = new_values],
         ret |-> UpdateImplResult(c.values, new_values),
         st |-> ins.st]

\* ForEachContent::content_added
ForEachContentAdded(c, data, path, st) ==
    LET r == ForEachUpdateImpl(c, data, path, st) IN [c |-> r.c, st |-> r.st]

\* ForEachContent::update
ForEachUpdate(c, old_data, data, same, path, st) ==
    IF ~same THEN ForEachUpdateImpl(c, data, path, st)
    ELSE [c |-> c, ret |-> FALSE, st |-> st]

\* A faulty variant of StaticUpdate: reports a change.
StaticUpdateTrue(c, old_data, data, same, path, st) == [c |-> c, ret |-> TRUE, st |-> st]

\* StaticContent::update
StaticUpdate(c, old_data, data, same, path, st) == [c |-> c, ret |-> FALSE, st |-> st]

\* StaticContent::content_added
StaticContentAdded(c, data, path, st) == [c |-> c, st |-> st]

\* ComposedContent::content_added
ComposedContentAdded(c, data, path, st) ==
    LET r1 == ContentAdded(c.content1, data, Append(path, "content1"), st)
        r2 == ContentAdded(c.content2, data, Append(path, "content2"), r1.st)
    IN  [c |-> [c EXCEPT !.content1 = r1.c, !.content2 = r2.c], st |-> r2.st]

\* ComposedContent::update
ComposedUpdate(c, old_data, data, same, path, st) ==
    LET r1 == Update(c.content1, old_data, data, same, Append(path, "content1"), st)
        r2 == Update(c.content2, old_data, data, same, Append(path, "content2"), r1.st)
    IN  [c |-> [c EXCEPT !.content1 = r1.c, !.content2 = r2.c],
         ret |-> (r1.ret \/ r2.ret), st |-> r2.st]

\* CondBranch::content_added
CondBranchContentAdded(br, data, path, st) ==
    LET r == ContentAdded(br.und, data, path, st)
    IN  [br |-> [und |-> r.c, shown |-> TRUE], st |-> r.st]

\* A faulty variant of BranchShown: the flag is ignored, every update initialises.
BranchShownNever(br) == FALSE

\* CondBranch::update, its test: has this branch been initialised?
BranchShown(br) == br.shown

\* CondBranch::update
CondBranchUpdate(br, old_data, data, same, path, st) ==
    IF BranchShown(br)
    THEN LET r == Update(br.und, old_data, data, same, path, st)
         IN  [br |-> [br EXCEPT !.und = r.c], ret |-> r.ret, st |-> r.st]
    ELSE LET r == ContentAdded(br.und, data, path, st)
         IN  [br |-> [und |-> r.c, shown |-> TRUE], ret |-> TRUE, st |-> r.st]

\* ConditionalContent::content_added
ConditionalContentAdded(c, data, path, st) ==
    LET cur == Condition(c.condition, data)
    IN  IF cur
        THEN LET r == CondBranchContentAdded(c.true_br, data, Append(path, "true_br"), st)
             IN  [c |-> [c EXCEPT !.current = Some(cur), !.true_br = r.br], st |-> r.st]
        ELSE LET r == CondBranchContentAdded(c.false_br, data, Append(path, "false_br"), st)
             IN  [c |-> [c EXCEPT !.current = Some(cur), !.false_br = r.br], st |-> r.st]

\* ConditionalContent::update: `let changed = self.current == new_cond`
CondChanged(current, new_cond) == current = new_cond

\* A faulty variant of ConditionalRecheck: the condition is not evaluated again.
ConditionalRecheckStale(c, data, same) == [current |-> c.current, cond_changed |-> FALSE]

\* ConditionalContent::update, first half: the new `current` and cond_changed
ConditionalRecheck(c, data, same) ==
    IF ~same
    THEN LET new_cond == Some(Condition(c.condition, data))
         IN  [current |-> new_cond, cond_changed |-> CondChanged(c.current, new_cond)]
    ELSE [current |-> c.current, cond_changed |-> FALSE]

\* ConditionalContent::update
ConditionalUpdate(c, old_data, data, same, path, st) ==
    LET rc == ConditionalRecheck(c, data, same)
        c1 == [c EXCEPT !.current = rc.current]
    IN  IF c1.current = None
        THEN [c |-> c1, ret |-> rc.cond_changed, st |-> st]
        ELSE IF c1.current[1]
        THEN LET r == CondBranchUpdate(c1.true_br, old_data, data, same,
                                       Append(path, "true_br"), st)
             IN  [c |-> [c1 EXCEPT !.true_br = r.br],
                  ret |-> (rc.cond_changed \/ r.ret), st |-> r.st]
        ELSE LET r == CondBranchUpdate(c1.false_br, old_data, data, same,
                                       Append(path, "false_br"), st)
             IN  [c |-> [c1 EXCEPT !.false_br = r.br],
                  ret |-> (rc.cond_changed \/ r.ret), st |-> r.st]

\* Content::content_added, dispatched on the variant; the call is logged.
ContentAdded(c, data, path, st) ==
    LET st1 == Logged(st, Entry("content_added", path, FALSE, 0))
    IN  CASE c.kind = "Static" -> StaticContentAdded(c, data, path, st1)
          [] c.kind = "ForEach" -> ForEachContentAdded(c, data, path, st1)
          [] c.kind = "Composed" -> ComposedContentAdded(c, data, path, st1)
          [] c.kind = "Conditional" -> ConditionalContentAdded(c, data, path, st1)

\* Content::update, dispatched on the variant; the call and its result are logged.
Update(c, old_data, data, same, path, st) ==
    LET r == CASE c.kind = "Static" -> StaticUpdate(c, old_data, data, same, path, st)
               [] c.kind = "ForEach" -> ForEachUpdate(c, old_data, data, same, path, st)
               [] c.kind = "Composed" -> ComposedUpdate(c, old_data, data, same, path, st)
               [] c.kind = "Conditional" ->
                      ConditionalUpdate(c, old_data, data, same, path, st)
    IN  [r EXCEPT !.st = Logged(@, Entry("update", path, r.ret, 0))]

(***************************************************************************)
(* The state machine: one content tree, owned by a container widget that   *)
(* builds it, tells it once that it was added, and then forwards every     *)
(* data round to it.                                                       *)
(***************************************************************************)
VARIABLES
    content,  \* the content tree
    data,     \* the data of the latest round
    phase,    \* "built" before Content::content_added, "added" after
    nextId,   \* the next pod identity
    prev,     \* the content tree before the latest operation
    last,     \* the latest operation: its name, result and call log
    scope,    \* a Scope widget (widget/scope.rs): its content and inner pod
    input,    \* the outer Input the Scope is dispatched with
    strace,   \* the latest Scope dispatch: its steps and what it started from
    host,     \* a BindingHost (widget/binding.rs) and its controlled widget
    bdata,    \* the data T the BindingHost is dispatched with
    commands, \* APPLY_BINDINGS commands the BindingHost sent to itself, not yet delivered
    btrace,   \* the latest BindingHost dispatch: its steps and what it started from
    phost,    \* a BindingHost whose binding is a pair of lens bindings
    pdata,    \* the data that BindingHost is dispatched with
    ptrace,   \* the latest operation of the pair binding
    tabs,     \* a Tabs widget (widget/tabs.rs) with its scope, tab bar and tab bodies
    tdata,    \* the data the Tabs widget is dispatched with
    tnext,    \* the next identity of a tab body pod
    tdue,     \* an update of the Tabs node is due
    ttrace,   \* the latest Tabs dispatch: what it did and what it started from
    hit,      \* a TabBar's tabs with their layout rects, and the latest find_idx
    port,     \* a SubWindowPort (widget/sub_window.rs)
    sdata,    \* the data the port is dispatched with
    sold,     \* the data the port's pod was last updated with
    shost,    \* the SubWindowHost at the root of the sub-window
    tohost,   \* commands submitted to the host, not yet delivered
    toport,   \* commands submitted to the port, not yet delivered
    swtrace   \* the latest operation on the port or the host

contentVars == <<content, data, phase, nextId, prev, last>>

scopeVars == <<scope, input, strace>>

hostVars == <<host, bdata, commands, btrace>>

pairVars == <<phost, pdata, ptrace>>

tabsVars == <<tabs, tdata, tnext, tdue, ttrace>>

hitVars == <<hit>>

subVars == <<port, sdata, sold, shost, tohost, toport, swtrace>>

vars == <<contentVars, scopeVars, hostVars, pairVars, tabsVars, hitVars, subVars>>

\* StaticContent::of / with_child at construction
StaticOf(pod) == StaticAddChildWidget(StaticDefault, pod).c

\* The content trees the examples and constructors build, each with the
\* first unused pod identity.
Shapes ==
    << [c |-> ForEachNew("keys"), next |-> 1],
       [c |-> StaticDefault, next |-> 1],
       [c |-> NewIf("flag", StaticOf(1)), next |-> 2],
       [c |-> NewIfElse("flag", ForEachNew("keys"), StaticOf(1)), next |-> 2],
       [c |-> ComposedNew(ComposedNew(NewIf("flag", StaticOf(1)), ForEachNew("keys")),
                          StaticOf(2)), next |-> 3],
       [c |-> ComposedNew(StaticOf(1), ForEachNew("keys")), next |-> 2],
       [c |-> NewIfElse("flag", NewIfElse("nonempty", StaticOf(1), StaticOf(2)),
                        ForEachNew("keys")), next |-> 3] >>

InitialContents == Range(Shapes)

NoOp == [op |-> "new", ret |-> FALSE, log |-> <<>>, added |-> FALSE, pod |-> 0]

Init ==
    /\ \E i \in InitialContents : content = i.c /\ nextId = i.next /\ prev = i.c
    /\ data \in Data
    /\ phase = "built"
    /\ last = NoOp

\* The container hands a new pod to Content::add_child_widget.
AddChild ==
    /\ nextId <= MaxPods
    /\ LET r == AddChildWidget(content, nextId)
       IN  /\ content' = r.c
           /\ last' = [op |-> "add_child_widget", ret |-> r.ret, log |-> <<>>,
                       added |-> (phase = "added"), pod |-> nextId]
    /\ nextId' = nextId + 1
    /\ prev' = content
    /\ UNCHANGED <<data, phase>>
    /\ UNCHANGED <<scopeVars, hostVars, pairVars, tabsVars, hitVars, subVars>>

\* The container's WidgetAdded: Content::content_added, once.
DoContentAdded ==
    /\ phase = "built"
    /\ LET r == ContentAdded(content, data, <<>>, [next |-> nextId, log |-> <<>>])
       IN  /\ r.st.next <= MaxPods + 1
           /\ content' = r.c
           /\ nextId' = r.st.next
           /\ last' = [op |-> "content_added", ret |-> FALSE, log |-> r.st.log,
                       added |-> FALSE, pod |-> 0]
    /\ phase' = "added"
    /\ prev' = content
    /\ UNCHANGED data
    /\ UNCHANGED <<scopeVars, hostVars, pairVars, tabsVars, hitVars, subVars>>

\* A data round: Content::update(old_data, data).
DoUpdate ==
    /\ phase = "added"
    /\ \E d \in Data : \E same \in SameOutcomes(data, d) :
         LET r == Update(content, data, d, same, <<>>, [next |-> nextId, log |-> <<>>])
         IN  /\ r.st.next <= MaxPods + 1
             /\ content' = r.c
             /\ nextId' = r.st.next
             /\ data' = d
             /\ last' = [op |-> "update", ret |-> r.ret, log |-> r.st.log,
                         added |-> TRUE, pod |-> 0]
    /\ prev' = content
    /\ UNCHANGED phase
    /\ UNCHANGED <<scopeVars, hostVars, pairVars, tabsVars, hitVars, subVars>>

Next == AddChild \/ DoContentAdded \/ DoUpdate


(***************************************************************************)
(* Naming the nodes of a content tree, for the properties below.  The      *)
(* shape of a tree never changes, so a path names the same node in `prev`  *)
(* and in `content`.                                                       *)
(***************************************************************************)
Prefixed(h, S) == {<<h>> \o p : p \in S}

RECURSIVE Paths(_), LivePaths(_), NodeAt(_, _), RightmostLeaf(_)

\* every node: the root, operands of Composed, both branches of Conditional
Paths(c) ==
    {<<>>} \cup
    CASE c.kind = "Composed" ->
             Prefixed("content1", Paths(c.content1)) \cup
             Prefixed("content2", Paths(c.content2))
      [] c.kind = "Conditional" ->
             Prefixed("true_br", Paths(c.true_br.und)) \cup
             Prefixed("false_br", Paths(c.false_br.und))
      [] OTHER -> {}

\* the nodes whose children the root exposes: under a Conditional only the
\* current branch
LivePaths(c) ==
    {<<>>} \cup
    CASE c.kind = "Composed" ->
             Prefixed("content1", LivePaths(c.content1)) \cup
             Prefixed("content2", LivePaths(c.content2))
      [] c.kind = "Conditional" ->
             IF c.current = None THEN {}
             ELSE IF c.current[1] THEN Prefixed("true_br", LivePaths(c.true_br.und))
             ELSE Prefixed("false_br", LivePaths(c.false_br.und))
      [] OTHER -> {}

NodeAt(c, p) ==
    IF p = <<>> THEN c
    ELSE CASE Head(p) = "content1" -> NodeAt(c.content1, Tail(p))
           [] Head(p) = "content2" -> NodeAt(c.content2, Tail(p))
           [] Head(p) = "true_br" -> NodeAt(c.true_br.und, Tail(p))
           [] Head(p) = "false_br" -> NodeAt(c.false_br.und, Tail(p))

\* the path of the rightmost leaf: second operands, down to a non-Composed node
RightmostLeaf(c) ==
    IF c.kind = "Composed" THEN <<"content2">> \o RightmostLeaf(c.content2) ELSE <<>>

IsPrefix(p, q) == Len(p) <= Len(q) /\ SubSeq(q, 1, Len(p)) = p

PathsOfKind(c, kind) == {p \in Paths(c) : NodeAt(c, p).kind = kind}

StoredKeys(fe) == {k \in Keys : fe.child_widgets[k] # None}

LogHas(call, path) == \E i \in 1..Len(last.log) :
    last.log[i].call = call /\ last.log[i].path = path

LogEntries(call, path) ==
    {last.log[i] : i \in {j \in 1..Len(last.log) :
        last.log[j].call = call /\ last.log[j].path = path}}

(***************************************************************************)
(* C1.  Identity stability of ForEachContent: a key that is in the key     *)
(* sequence of one round and of the next resolves, through child_mut at    *)
(* its index, to the same pod in both rounds, and make_widget is not       *)
(* called for it, whatever happened to the other keys.                     *)
(***************************************************************************)
C1_IdentityStable ==
    \A p \in PathsOfKind(content, "ForEach") :
      LET o == NodeAt(prev, p)
          n == NodeAt(content, p)
      IN  \A i \in 1..Len(o.values) : \A j \in 1..Len(n.values) :
            o.values[i] = n.values[j] =>
              /\ ChildMut(n, j - 1) # None
              /\ ChildMut(n, j - 1) = ChildMut(o, i - 1)
              /\ \A e \in LogEntries("make_widget", p) : e.key # n.values[j]

\* a key kept its pod while it moved to another index and the key set changed
C1_Witness ==
    /\ last.op = "update"
    /\ \E p \in PathsOfKind(content, "ForEach") :
         LET o == NodeAt(prev, p)
             n == NodeAt(content, p)
         IN  /\ Range(o.values) # Range(n.values)
             /\ \E i \in 1..Len(o.values) : \E j \in 1..Len(n.values) :
                  i # j /\ o.values[i] = n.values[j]
                  /\ ChildMut(n, j - 1) = ChildMut(o, i - 1)

(***************************************************************************)
(* C2.  As claimed: pods of vanished keys are dropped, so that after every *)
(* content_added or update of a ForEachContent the keys with a stored pod  *)
(* are exactly the keys of the current key sequence.                       *)
(***************************************************************************)
C2_VanishedDropped ==
    \A p \in PathsOfKind(content, "ForEach") :
      (LogHas("content_added", p) \/ LogHas("update", p)) =>
        StoredKeys(NodeAt(content, p)) = Range(NodeAt(content, p).values)

(***************************************************************************)
(* C2, amended.  ForEachContent never drops a pod: every key that had a    *)
(* pod keeps that very pod, the keys with a pod are those that had one     *)
(* plus the keys of the current sequence, and so a key that was present,   *)
(* then absent, then present again is served by the pod it had before the  *)
(* gap, with no call of make_widget.                                       *)
(***************************************************************************)
C2_VanishedRetained ==
    \A p \in PathsOfKind(content, "ForEach") :
      LET o == NodeAt(prev, p)
          n == NodeAt(content, p)
      IN  /\ \A k \in StoredKeys(o) : n.child_widgets[k] = o.child_widgets[k]
          /\ Range(n.values) \subseteq StoredKeys(n)
          /\ StoredKeys(n) \subseteq StoredKeys(o) \cup Range(n.values)
          /\ \A k \in StoredKeys(o) : ~\E e \in LogEntries("make_widget", p) : e.key = k

\* a key absent from the previous round's sequence, whose pod was still
\* stored, is back in the sequence with that pod
C2_Witness ==
    /\ last.op = "update"
    /\ \E p \in PathsOfKind(content, "ForEach") : \E k \in Keys :
         LET o == NodeAt(prev, p)
             n == NodeAt(content, p)
         IN  /\ k \in StoredKeys(o)
             /\ k \notin Range(o.values)
             /\ k \in Range(n.values)
             /\ n.child_widgets[k] = o.child_widgets[k]

(***************************************************************************)
(* C3.  As claimed: update of a ForEachContent returns true exactly when   *)
(* the key sequence computed from the new data differs from the key        *)
(* sequence of the previous round.                                         *)
(***************************************************************************)
C3_UpdateReportsChange ==
    \A p \in PathsOfKind(content, "ForEach") :
      \A e \in LogEntries("update", p) :
        e.ret = (ValuesFromData(NodeAt(content, p).values_from_data, data)
                   # NodeAt(prev, p).values)

(***************************************************************************)
(* C4.  As claimed: no key occurs twice in a ForEachContent: two different *)
(* indices below len() never resolve to the same key and pod.              *)
(***************************************************************************)
C4_NoDuplicateKey ==
    \A p \in PathsOfKind(content, "ForEach") :
      LET n == NodeAt(content, p)
      IN  \A i \in 0..(ContentLen(n) - 1) : \A j \in 0..(ContentLen(n) - 1) :
            i # j => ~(n.values[i + 1] = n.values[j + 1] /\ ChildMut(n, i) = ChildMut(n, j))

(***************************************************************************)
(* C5.  add_child_widget: a Static content appends the pod as its last     *)
(* child and returns true; ForEach and Conditional return false and stay   *)
(* as they are; a Composed content hands the pod to its second operand     *)
(* only, so the call is accepted exactly when the rightmost leaf is        *)
(* Static, and then only that leaf changes.                                *)
(***************************************************************************)
C5_AddChild ==
    last.op = "add_child_widget" =>
      LET rp == RightmostLeaf(prev)
          leaf == NodeAt(prev, rp)
      IN  /\ last.ret = (leaf.kind = "Static")
          /\ prev.kind \in {"ForEach", "Conditional"} => (~last.ret /\ content = prev)
          /\ prev.kind = "Composed" => content.content1 = prev.content1
          /\ ~last.ret => content = prev
          /\ last.ret =>
               /\ NodeAt(content, rp).children = Append(leaf.children, last.pod)
               /\ LastChild(content) = Some(last.pod)
               /\ ContentLen(content) = ContentLen(prev) + 1
               /\ \A p \in Paths(prev) :
                    ~IsPrefix(p, rp) => NodeAt(content, p) = NodeAt(prev, p)

\* a Composed content with a non-empty first operand accepted a child
C5_Witness ==
    /\ last.op = "add_child_widget"
    /\ last.ret
    /\ prev.kind = "Composed"
    /\ ContentLen(prev.content1) > 0
    /\ phase = "added"

(***************************************************************************)
(* C6.  ComposedContent of A and B: len() = A.len() + B.len(); child_mut   *)
(* gives A's child i below A.len(), B's child i - A.len() below len(), and *)
(* None from len() on; for_each_child visits A's children in A's order and *)
(* then B's in B's order.                                                  *)
(***************************************************************************)
C6_ComposedIndexing ==
    \A p \in PathsOfKind(content, "Composed") :
      LET c == NodeAt(content, p)
          la == ContentLen(c.content1)
          lb == ContentLen(c.content2)
      IN  /\ ContentLen(c) = la + lb
          /\ \A i \in 0..(la + lb + 2) :
               ChildMut(c, i) =
                 IF i < la THEN ChildMut(c.content1, i)
                 ELSE IF i < la + lb THEN ChildMut(c.content2, i - la)
                 ELSE None
          /\ ForEachChild(c) = ForEachChild(c.content1) \o ForEachChild(c.content2)
          /\ Len(ForEachChild(c)) = la + lb

\* a Composed content whose operands both have children, the second several
C6_Witness ==
    /\ phase = "added"
    /\ \E p \in PathsOfKind(content, "Composed") :
         /\ ContentLen(NodeAt(content, p).content1) >= 1
         /\ ContentLen(NodeAt(content, p).content2) >= 2
         /\ Cardinality(Range(ForEachChild(NodeAt(content, p).content2))) >= 2

(***************************************************************************)
(* C7.  A ConditionalContent whose children are exposed shows exactly one  *)
(* branch: before content_added it has no children; after content_added    *)
(* and after every update, len, child_mut and last_child are those of the  *)
(* true branch when the condition holds on the newest data and of the      *)
(* false branch otherwise, and that branch has been initialised.           *)
(***************************************************************************)
BranchFor(c, d) == IF Condition(c.condition, d) THEN c.true_br ELSE c.false_br

C7_ExposesBranchOfNewestData ==
    /\ phase = "built" =>
         \A p \in PathsOfKind(content, "Conditional") :
           LET c == NodeAt(content, p)
           IN  ContentLen(c) = 0 /\ ChildMut(c, 0) = None /\ LastChild(c) = None
    /\ phase = "added" =>
         \A p \in LivePaths(content) \cap PathsOfKind(content, "Conditional") :
           LET c == NodeAt(content, p)
               br == BranchFor(c, data)
           IN  /\ c.current = Some(Condition(c.condition, data))
               /\ br.shown
               /\ ContentLen(c) = ContentLen(br.und)
               /\ LastChild(c) = LastChild(br.und)
               /\ \A i \in 0..(ContentLen(br.und) + 1) : ChildMut(c, i) = ChildMut(br.und, i)

\* an update flipped the condition and the content now shows the children
\* of the other branch
C7_Witness ==
    /\ last.op = "update"
    /\ content.kind = "Conditional"
    /\ prev.current # content.current
    /\ prev.current # None
    /\ ContentLen(content) > 0
    /\ ForEachChild(content) # ForEachChild(prev)

(***************************************************************************)
(* C8.  As claimed: whenever an update flips the condition of a            *)
(* ConditionalContent, content_added runs for the branch that becomes      *)
(* current, the first time and every later time.                           *)
(***************************************************************************)
BranchName(current) == IF current[1] THEN "true_br" ELSE "false_br"

Flipped(p) ==
    /\ LogHas("update", p)
    /\ NodeAt(prev, p).current # None
    /\ NodeAt(prev, p).current # NodeAt(content, p).current

C8_FlipReinitialises ==
    \A p \in PathsOfKind(content, "Conditional") :
      Flipped(p) =>
        LogHas("content_added", Append(p, BranchName(NodeAt(content, p).current)))

(***************************************************************************)
(* C8, amended.  content_added runs for a branch exactly when the branch   *)
(* becomes current for the first time (it had not been shown); when an     *)
(* update flips the condition back to a branch that was shown before,      *)
(* content_added does not run again and the branch gets update instead.    *)
(***************************************************************************)
C8_InitialisedOnFirstShowOnly ==
    \A p \in PathsOfKind(content, "Conditional") :
      LET o == NodeAt(prev, p)
          n == NodeAt(content, p)
      IN  /\ LogHas("content_added", Append(p, "true_br"))
               <=> (~o.true_br.shown /\ n.true_br.shown)
          /\ LogHas("content_added", Append(p, "false_br"))
               <=> (~o.false_br.shown /\ n.false_br.shown)
          /\ Flipped(p) =>
               LET b == BranchName(n.current)
                   was == IF n.current[1] THEN o.true_br.shown ELSE o.false_br.shown
               IN  /\ was => (LogHas("update", Append(p, b))
                              /\ ~LogHas("content_added", Append(p, b)))
                   /\ ~was => (LogHas("content_added", Append(p, b))
                               /\ ~LogHas("update", Append(p, b)))

\* an update flipped the condition back to a branch shown before: that
\* branch was updated, not initialised again
C8_Witness ==
    \E p \in PathsOfKind(content, "Conditional") :
      /\ Flipped(p)
      /\ LET b == BranchName(NodeAt(content, p).current)
         IN  /\ IF NodeAt(content, p).current[1]
                THEN NodeAt(prev, p).true_br.shown ELSE NodeAt(prev, p).false_br.shown
             /\ LogHas("update", Append(p, b))
             /\ ~LogHas("content_added", Append(p, b))

(***************************************************************************)
(* C9.  As claimed: ConditionalContent::update returns true when the       *)
(* condition flipped or the current branch reported a change, and false    *)
(* when the condition kept its value and the branch reported none.         *)
(***************************************************************************)
\* what CondBranch::update gave back: the result of the branch content's
\* update, or true when it ran content_added instead
BranchReported(path) ==
    IF LogHas("update", path) THEN \E e \in LogEntries("update", path) : e.ret ELSE TRUE

C9_UpdateReportsChange ==
    \A p \in PathsOfKind(content, "Conditional") :
      \A e \in LogEntries("update", p) :
        LET o == NodeAt(prev, p)
            n == NodeAt(content, p)
        IN  n.current # None =>
              e.ret = (o.current # n.current
                         \/ BranchReported(Append(p, BranchName(n.current))))

(***************************************************************************)
(* C10.  As claimed: once content_added has run, no operation changes the  *)
(* children of a StaticContent, and update returns false.                  *)
(***************************************************************************)
C10_StaticFixedAfterAdded ==
    last.added =>
      \A p \in PathsOfKind(content, "Static") :
        /\ NodeAt(content, p).children = NodeAt(prev, p).children
        /\ \A e \in LogEntries("update", p) : ~e.ret

(***************************************************************************)
(* C10, amended.  content_added and update never change the children of a  *)
(* StaticContent, and update returns false; the children present keep      *)
(* their places for ever; the number of children changes only through      *)
(* add_child_widget, which appends one pod, also after content_added.      *)
(***************************************************************************)
C10_StaticChangedOnlyByAddChild ==
    \A p \in PathsOfKind(content, "Static") :
      LET o == NodeAt(prev, p).children
          n == NodeAt(content, p).children
      IN  /\ last.op # "add_child_widget" => n = o
          /\ last.op = "add_child_widget" => (n = o \/ n = Append(o, last.pod))
          /\ \A e \in LogEntries("update", p) : ~e.ret
          /\ (last.op = "update" /\ p = <<>>) => ~last.ret

\* a data round, with new data, reached a StaticContent of several children
C10_Witness ==
    /\ last.op = "update"
    /\ content.kind = "Static"
    /\ Len(content.children) >= 2
    /\ LogHas("update", <<>>)
    /\ data.keys # <<>>

\* The read operations of one content agree on its indices.
IndexConsistent(c) ==
    LET n == ContentLen(c)
    IN  /\ \A i \in 0..(n + MaxLen) : (ChildMut(c, i) # None) = (i < n)
        /\ LastChild(c) = (IF n = 0 THEN None ELSE ChildMut(c, n - 1))
        /\ (LastChild(c) = None) = (n = 0)
        /\ IsEmpty(c) = (n = 0)

(***************************************************************************)
(* C40.  Index consistency.  In every reachable state and for every        *)
(* content of the tree, whatever its variant and wherever it is nested:    *)
(* child_mut(i) is a pod for every i < len() and None for every i at or    *)
(* beyond len(), last_child() is the pod at index len() - 1 and is None    *)
(* exactly when len() = 0, and is_empty() holds exactly when len() = 0.    *)
(***************************************************************************)
C40_IndexConsistency ==
    \A p \in Paths(content) : IndexConsistent(NodeAt(content, p))

\* C40 happens: after an update a composed content has children in both
\* operands, the second a dynamic content with children.
C40_Witness ==
    /\ last.op = "update"
    /\ content.kind = "Composed"
    /\ ContentLen(content.content1) > 0
    /\ ContentLen(content.content2) > 0
    /\ \E p \in PathsOfKind(content, "ForEach") : ContentLen(NodeAt(content, p)) = MaxLen

(***************************************************************************)
(* The Scope widget (widget/scope.rs).  The outer Input and the fields of  *)
(* the State are small numbers.  The State is shaped like TabsState        *)
(* (widget/tabs.rs): `inner` is the embedded copy of the Input, the part   *)
(* the lens of a LensScopeTransfer points at, and `selected` is private to *)
(* the Scope.                                                              *)
(***************************************************************************)
\* Input values and State fields are 0..MaxVal
MaxVal == 2

Vals == 0..MaxVal

States == [inner : Vals, selected : Vals]

\* TabsScopePolicy / DefaultScopePolicy::from_lens: a policy whose transfer
\* is a LensScopeTransfer.
LensPolicy == [kind |-> "lens", state |-> None]

\* IsolatedScopePolicy::new(state)
IsolatedPolicy(state) == [kind |-> "isolated", state |-> Some(state)]

\* Scope::new: the content holds the policy, the inner pod is fresh.
ScopeNew(policy) ==
    [content |-> [kind |-> "Policy", policy |-> Some(policy)],
     inner |-> [old_data |-> None]]

\* ScopeContent::Transfer { state, transfer }
TransferContent(state, transfer) ==
    [kind |-> "Transfer", state |-> state, transfer |-> transfer]

\* ScopePolicy::create: the lens policy makes the State from a clone of the
\* Input, the isolated policy hands out the State it was built with.
PolicyCreate(policy, in) ==
    IF policy.kind = "isolated"
    THEN [state |-> policy.state[1], transfer |-> "isolated"]
    ELSE [state |-> [inner |-> in, selected |-> 0], transfer |-> "lens"]

\* Scope::state
ScopeState(self) ==
    IF self.content.kind = "Transfer" THEN Some(self.content.state) ELSE None

\* A faulty variant of ReadInput: every transfer copies the Input into the
\* State, the isolated one too.
ReadInputAlways(transfer, state, in) ==
    IF state.inner # in
    THEN [state EXCEPT !.inner = in]
    ELSE state

\* ScopeTransfer::read_input
ReadInput(transfer, state, in) ==
    IF transfer = "lens" /\ state.inner # in
    THEN [state EXCEPT !.inner = in]
    ELSE state

\* A faulty variant of WriteBackInput: the comparison is inverted, so the
\* assignment runs exactly when the two values are already the same.
WriteBackInputInverted(transfer, state, in) ==
    IF transfer = "lens" /\ state.inner = in
    THEN [data |-> state.inner, assigned |-> TRUE]
    ELSE [data |-> in, assigned |-> FALSE]

\* ScopeTransfer::write_back_input: the Input afterwards, and whether the
\* assignment `*data = embedded.clone()` ran.
WriteBackInput(transfer, state, in) ==
    IF transfer = "lens" /\ state.inner # in
    THEN [data |-> state.inner, assigned |-> TRUE]
    ELSE [data |-> in, assigned |-> FALSE]

\* A faulty variant of WithState: the content is not replaced after the
\* policy made the State.
WithStateKeepingPolicy(self, is_update, in) ==
    IF self.content.kind = "Policy"
    THEN [self |-> self,
          seen |-> PolicyCreate(self.content.policy[1], in).state,
          steps |-> <<"create", "inner">>]
    ELSE LET c == self.content
             st == IF is_update THEN ReadInput(c.transfer, c.state, in) ELSE c.state
         IN  [self |-> [self EXCEPT !.content.state = st],
              seen |-> st,
              steps |-> (IF is_update THEN <<"read_input">> ELSE <<>>)
                        \o (IF is_update /\ self.inner.old_data # None
                            THEN <<"update_computed">> ELSE <<>>)
                        \o <<"inner">>]

\* Scope::with_state: the Scope afterwards, the State handed to the closure
\* and the steps taken, the closure's run being the step "inner".
WithState(self, is_update, in) ==
    IF self.content.kind = "Policy"
    THEN LET c == PolicyCreate(self.content.policy[1], in)
         IN  [self |-> [self EXCEPT !.content = TransferContent(c.state, c.transfer)],
              seen |-> c.state,
              steps |-> <<"create", "inner">>]
    ELSE LET c == self.content
             st == IF is_update THEN ReadInput(c.transfer, c.state, in) ELSE c.state
         IN  [self |-> [self EXCEPT !.content.state = st],
              seen |-> st,
              steps |-> (IF is_update THEN <<"read_input">> ELSE <<>>)
                        \o (IF is_update /\ self.inner.old_data # None
                            THEN <<"update_computed">> ELSE <<>>)
                        \o <<"inner">>]

\* Scope::with_state_mut: the closure gets the State mutably and leaves it
\* as `after`; no read_input on either branch.
WithStateMut(self, in, after) ==
    IF self.content.kind = "Policy"
    THEN LET c == PolicyCreate(self.content.policy[1], in)
         IN  [self |-> [self EXCEPT !.content = TransferContent(after, c.transfer)],
              seen |-> c.state,
              steps |-> <<"create", "inner">>]
    ELSE [self |-> [self EXCEPT !.content.state = after],
          seen |-> self.content.state,
          steps |-> <<"inner">>]

\* Scope::update_computed_and_write_back: writes back only when the inner
\* pod has an old-data snapshot and the State is not the same as it.
UpdateComputedAndWriteBack(self, in) ==
    IF /\ self.content.kind = "Transfer"
       /\ self.inner.old_data # None
       /\ self.inner.old_data[1] # self.content.state
    THEN [data |-> WriteBackInput(self.content.transfer, self.content.state, in).data,
          steps |-> <<"write_back_input">>]
    ELSE [data |-> in, steps |-> <<>>]

\* The inner WidgetPod keeps a snapshot of the data it was last updated
\* with: taken at WidgetAdded and at the end of every update.
PodLifecycle(pod, event, state) ==
    IF event = "WidgetAdded" THEN [pod EXCEPT !.old_data = Some(state)] ELSE pod

PodUpdate(pod, state) == [pod EXCEPT !.old_data = Some(state)]

LifeCycleEvents == {"WidgetAdded", "HotChanged"}

Dispatches == {"event", "lifecycle", "update", "layout", "paint"}

\* What is recorded of a dispatch.
Dispatch(op, steps, seen) ==
    [op |-> op, steps |-> steps, seen |-> seen,
     from |-> scope.content.kind, state0 |-> ScopeState(scope), input0 |-> input,
     policy0 |-> (IF scope.content.kind = "Policy" THEN scope.content.policy ELSE None),
     dispatched |-> (op \in Dispatches \/ strace.dispatched)]

\* Nothing dispatched yet.
NoDispatch(in) ==
    [op |-> "new", steps |-> <<>>, seen |-> None, from |-> "Policy",
     state0 |-> None, input0 |-> in, policy0 |-> None, dispatched |-> FALSE]

\* Scope::new with either kind of policy (Scope::from_lens, Scope::isolate)
InitScope ==
    /\ \E policy \in {LensPolicy} \cup {IsolatedPolicy(st) : st \in States} :
         scope = ScopeNew(policy)
    /\ input \in Vals
    /\ strace = NoDispatch(input)

\* Scope::event.  The inner widget may leave the State as any value.
ScopeEvent ==
    /\ \E after \in States :
         LET r == WithStateMut(scope, input, after)
             w == UpdateComputedAndWriteBack(r.self, input)
         IN  /\ scope' = r.self
             /\ input' = w.data
             /\ strace' = Dispatch("event", r.steps \o w.steps \o <<"request_update">>,
                                   Some(r.seen))
    /\ UNCHANGED <<contentVars, hostVars, pairVars, tabsVars, hitVars, subVars>>

\* Scope::lifecycle
ScopeLifecycle ==
    /\ \E event \in LifeCycleEvents :
         LET r == WithState(scope, FALSE, input)
         IN  /\ scope' = [r.self EXCEPT !.inner = PodLifecycle(@, event, r.seen)]
             /\ strace' = Dispatch("lifecycle", r.steps, Some(r.seen))
    /\ UNCHANGED <<input, contentVars, hostVars, pairVars, tabsVars, hitVars, subVars>>

\* Scope::update
ScopeUpdate ==
    /\ LET r == WithState(scope, TRUE, input)
       IN  /\ scope' = [r.self EXCEPT !.inner = PodUpdate(@, r.seen)]
           /\ strace' = Dispatch("update", r.steps, Some(r.seen))
    /\ UNCHANGED <<input, contentVars, hostVars, pairVars, tabsVars, hitVars, subVars>>

\* Scope::layout
ScopeLayout ==
    /\ LET r == WithState(scope, FALSE, input)
       IN  /\ scope' = r.self
           /\ strace' = Dispatch("layout", r.steps, Some(r.seen))
    /\ UNCHANGED <<input, contentVars, hostVars, pairVars, tabsVars, hitVars, subVars>>

\* Scope::paint
ScopePaint ==
    /\ LET r == WithState(scope, FALSE, input)
       IN  /\ scope' = r.self
           /\ strace' = Dispatch("paint", r.steps, Some(r.seen))
    /\ UNCHANGED <<input, contentVars, hostVars, pairVars, tabsVars, hitVars, subVars>>

\* The owner of the outer data, or a widget that handles the event before
\* the Scope does, changes the Input.
SetInput ==
    /\ \E v \in Vals \ {input} : input' = v
    /\ strace' = Dispatch("set_input", <<>>, None)
    /\ UNCHANGED <<scope, contentVars, hostVars, pairVars, tabsVars, hitVars, subVars>>

NextScope ==
    ScopeEvent \/ ScopeLifecycle \/ ScopeUpdate \/ ScopeLayout \/ ScopePaint \/ SetInput

(***************************************************************************)
(* Properties of the Scope.                                                *)
(***************************************************************************)
\* How often x occurs in the sequence s.
Count(s, x) == Cardinality({i \in 1..Len(s) : s[i] = x})

\* The steps of s named in `names`, in the order they were taken.
Only(s, names) == SelectSeq(s, LAMBDA x : x \in names)

\* The kind of transfer the Scope has or will have.
TransferKind(self) ==
    IF self.content.kind = "Policy" THEN self.content.policy[1].kind
    ELSE self.content.transfer

(***************************************************************************)
(* C11.  A Scope holds its policy, and state() is None, until the first    *)
(* dispatch of any phase; that dispatch calls the policy's create once and *)
(* leaves the Scope Running; every later dispatch starts and ends Running, *)
(* calls create never, and state() is Some.                                *)
(***************************************************************************)
C11_CreatedOnceOnFirstDispatch ==
    /\ ~strace.dispatched =>
         /\ scope.content.kind = "Policy"
         /\ scope.content.policy # None
         /\ ScopeState(scope) = None
    /\ strace.dispatched =>
         /\ scope.content.kind = "Transfer"
         /\ ScopeState(scope) # None
    /\ strace.op \in Dispatches =>
         Count(strace.steps, "create") = (IF strace.from = "Policy" THEN 1 ELSE 0)
    /\ strace.op \notin Dispatches => Count(strace.steps, "create") = 0

\* a dispatch of a Scope that was Running already
C11_Witness ==
    /\ strace.op \in Dispatches
    /\ strace.from = "Transfer"
    /\ scope.content.kind = "Transfer"

(***************************************************************************)
(* C12.  As claimed: in Scope.event of a Running Scope read_input runs,    *)
(* then the inner widget gets the event, then write_back_input runs, then  *)
(* an update is requested.                                                 *)
(***************************************************************************)
C12_EventOrder ==
    (strace.op = "event" /\ strace.from = "Transfer") =>
      Only(strace.steps, {"read_input", "inner", "write_back_input", "request_update"})
        = <<"read_input", "inner", "write_back_input", "request_update">>

(***************************************************************************)
(* C13.  As claimed: when Scope.event of a Scope with a lens transfer      *)
(* returns, the outer Input is the same as the embedded portion of the     *)
(* State, whatever the inner widget did and whether or not the Scope was   *)
(* Running or its pod had an old-data snapshot.                            *)
(***************************************************************************)
C13_EventLeavesInputSynced ==
    (strace.op = "event" /\ TransferKind(scope) = "lens") =>
      input = scope.content.state.inner

(***************************************************************************)
(* C14.  write_back_input of the lens transfer is idempotent: a second     *)
(* call on the same State assigns nothing and leaves the Input as the      *)
(* first call left it; and a call whose embedded value is already the same *)
(* as the Input assigns nothing.                                           *)
(***************************************************************************)
C14_WriteBackIdempotent ==
    (scope.content.kind = "Transfer" /\ scope.content.transfer = "lens") =>
      LET st == scope.content.state
          first == WriteBackInput("lens", st, input)
          second == WriteBackInput("lens", st, first.data)
      IN  /\ second.data = first.data
          /\ ~second.assigned
          /\ st.inner = input => (~first.assigned /\ first.data = input)
          /\ st.inner # input => (first.assigned /\ first.data = st.inner)

\* Scope.event wrote a changed embedded value back: the Input now is the
\* same as the embedded value
C14_Witness ==
    /\ strace.op = "event"
    /\ scope.content.transfer = "lens"
    /\ Count(strace.steps, "write_back_input") = 1
    /\ input # strace.input0
    /\ input = scope.content.state.inner

(***************************************************************************)
(* C15.  A Scope with the isolated policy: no dispatch changes the outer   *)
(* Input; the State is the one the policy was built with until the inner   *)
(* widget changes it in an event, whatever the Input is or becomes.        *)
(***************************************************************************)
C15_IsolatedFrame ==
    TransferKind(scope) = "isolated" =>
      /\ input # strace.input0 => strace.op = "set_input"
      /\ (strace.state0 # None /\ ScopeState(scope) # strace.state0) => strace.op = "event"
      /\ (strace.op \in Dispatches /\ strace.from = "Policy") =>
           /\ strace.seen = strace.policy0[1].state
           /\ ScopeState(scope) # strace.seen => strace.op = "event"

\* an update of a Running isolated Scope whose Input differs from the
\* embedded value: the State is as it was
C15_Witness ==
    /\ scope.content.kind = "Transfer"
    /\ scope.content.transfer = "isolated"
    /\ strace.op = "update"
    /\ strace.from = "Transfer"
    /\ input # scope.content.state.inner
    /\ Count(strace.steps, "read_input") = 1

(***************************************************************************)
(* C36.  As claimed: no update is lost through a Scope with a lens         *)
(* transfer.  When Scope.event starts with an outer Input that differs     *)
(* from the embedded portion of the State, and the inner widget leaves the *)
(* embedded portion as it was, then the outer Input is afterwards what it  *)
(* was before.                                                             *)
(***************************************************************************)
C36_NoLostUpdate ==
    (/\ strace.op = "event"
     /\ strace.from = "Transfer"
     /\ TransferKind(scope) = "lens"
     /\ strace.input0 # strace.state0[1].inner
     /\ scope.content.state.inner = strace.state0[1].inner) =>
      input = strace.input0

(***************************************************************************)
(* The BindingHost widget (widget/binding.rs) with a LensBinding: the      *)
(* field `field` of the data is bound to the property `prop` of the        *)
(* controlled widget.  The data has a second field the binding does not    *)
(* look at.                                                                *)
(***************************************************************************)
\* APPLY_BINDINGS commands that can wait in the command queue
MaxCommands == 2

BData == [field : Vals, rest : BOOLEAN]

Controlled == [prop : Vals]

\* BindingHost::new
BindingHostNew(contained) == [contained |-> contained, pending_change |-> None]

\* LensBinding::apply_data_to_controlled
ApplyDataToControlled(d, controlled) == [controlled EXCEPT !.prop = d.field]

\* A faulty variant of AppendChangeRequired: the change carries the value of
\* the data field, not the value of the controlled property.
AppendChangeRequiredOfData(controlled, d, change) ==
    IF controlled.prop = d.field THEN None ELSE Some(d.field)

\* LensBinding::append_change_required: the change afterwards
AppendChangeRequired(controlled, d, change) ==
    IF controlled.prop = d.field THEN None ELSE Some(controlled.prop)

\* LensBinding::apply_change_to_data
ApplyChangeToData(controlled, d, change) == [d EXCEPT !.field = change]

\* BindingHost::apply_pending_changes
ApplyPendingChanges(self, d) ==
    IF self.pending_change # None
    THEN [self |-> [self EXCEPT !.pending_change = None],
          data |-> ApplyChangeToData(self.contained, d, self.pending_change[1]),
          steps |-> <<"apply_change_to_data">>]
    ELSE [self |-> self, data |-> d, steps |-> <<>>]

\* BindingHost::check_for_changes; the step is named by what it returns.
CheckForChanges(self, d) ==
    LET change == AppendChangeRequired(self.contained, d, self.pending_change)
    IN  [self |-> [self EXCEPT !.pending_change = change],
         ret |-> (change # None),
         steps |-> <<IF change # None THEN "check_found" ELSE "check_clear">>]

\* A faulty variant of CheckAndSubmit: a divergence is noted but no
\* command is submitted.
CheckAndSubmitSilent(self, d) ==
    LET r == CheckForChanges(self, d)
    IN  [self |-> r.self, steps |-> r.steps, submitted |-> 0]

\* The tail of lifecycle, update and layout: check, and on a divergence
\* submit APPLY_BINDINGS to the host itself.
CheckAndSubmit(self, d) ==
    LET r == CheckForChanges(self, d)
    IN  [self |-> r.self,
         steps |-> r.steps \o (IF r.ret THEN <<"submit_command">> ELSE <<>>),
         submitted |-> (IF r.ret THEN 1 ELSE 0)]

\* A faulty variant of BindingHostUpdate: the data is pushed to the
\* controlled widget after the contained widget's update.
BindingHostUpdatePushingLate(self, old_data, d, prop) ==
    LET afterw == [self EXCEPT !.contained.prop = prop]
        pushed == IF old_data # d
                  THEN [afterw EXCEPT !.contained = ApplyDataToControlled(d, @)]
                  ELSE afterw
        r == CheckAndSubmit(pushed, d)
    IN  [self |-> r.self,
         atpush |-> self.contained,
         steps |-> <<"contained">>
                   \o (IF old_data # d THEN <<"apply_data_to_controlled">> ELSE <<>>)
                   \o r.steps,
         submitted |-> r.submitted]

\* BindingHost::update; the contained widget's update leaves its property
\* as `prop`.  `atpush` is the controlled widget as the contained widget's
\* update finds it.
BindingHostUpdate(self, old_data, d, prop) ==
    LET pushed == IF old_data # d
                  THEN [self EXCEPT !.contained = ApplyDataToControlled(d, @)]
                  ELSE self
        afterw == [pushed EXCEPT !.contained.prop = prop]
        r == CheckAndSubmit(afterw, d)
    IN  [self |-> r.self,
         atpush |-> pushed.contained,
         steps |-> (IF old_data # d THEN <<"apply_data_to_controlled">> ELSE <<>>)
                   \o <<"contained">> \o r.steps,
         submitted |-> r.submitted]

\* A faulty variant of BindingHostEvent: the pending change is applied
\* after the contained widget handled the event.
BindingHostEventApplyingLate(self, event, d, after, prop) ==
    LET afterw == IF event = "APPLY_BINDINGS" THEN [self |-> self, data |-> d]
                  ELSE [self |-> [self EXCEPT !.contained.prop = prop], data |-> after]
        a == ApplyPendingChanges(afterw.self, afterw.data)
        c == CheckForChanges(a.self, a.data)
        b == IF c.ret THEN ApplyPendingChanges(c.self, a.data)
             ELSE [self |-> c.self, data |-> a.data, steps |-> <<>>]
    IN  [self |-> b.self, data |-> b.data,
         seen |-> IF event = "APPLY_BINDINGS" THEN None ELSE Some(d),
         steps |-> (IF event = "APPLY_BINDINGS" THEN <<"set_handled">> ELSE <<"contained">>)
                   \o a.steps \o c.steps \o b.steps]

\* A faulty variant of BindingHostEvent: the host's own command is passed
\* on to the contained widget and is not marked handled.
BindingHostEventForwarding(self, event, d, after, prop) ==
    LET a == ApplyPendingChanges(self, d)
        afterw == [self |-> [a.self EXCEPT !.contained.prop = prop],
                   data |-> IF event = "APPLY_BINDINGS" THEN a.data ELSE after]
        c == CheckForChanges(afterw.self, afterw.data)
        b == IF c.ret THEN ApplyPendingChanges(c.self, afterw.data)
             ELSE [self |-> c.self, data |-> afterw.data, steps |-> <<>>]
    IN  [self |-> b.self, data |-> b.data,
         seen |-> Some(a.data),
         steps |-> a.steps \o <<"contained">> \o c.steps \o b.steps]

\* BindingHost::event.  The contained widget, when it gets the event,
\* leaves the data as `after` and its property as `prop`; `seen` is the
\* data it was handed.
BindingHostEvent(self, event, d, after, prop) ==
    LET a == ApplyPendingChanges(self, d)
        afterw == IF event = "APPLY_BINDINGS" THEN [self |-> a.self, data |-> a.data]
                  ELSE [self |-> [a.self EXCEPT !.contained.prop = prop], data |-> after]
        c == CheckForChanges(afterw.self, afterw.data)
        b == IF c.ret THEN ApplyPendingChanges(c.self, afterw.data)
             ELSE [self |-> c.self, data |-> afterw.data, steps |-> <<>>]
    IN  [self |-> b.self, data |-> b.data,
         seen |-> IF event = "APPLY_BINDINGS" THEN None ELSE Some(a.data),
         steps |-> a.steps
                   \o (IF event = "APPLY_BINDINGS" THEN <<"set_handled">> ELSE <<"contained">>)
                   \o c.steps \o b.steps]

\* BindingHost::lifecycle and BindingHost::layout
BindingHostReadOnly(self, d, prop) ==
    LET r == CheckAndSubmit([self EXCEPT !.contained.prop = prop], d)
    IN  [self |-> r.self, steps |-> <<"contained">> \o r.steps, submitted |-> r.submitted]

\* A faulty variant of BindingHostPaint: paint ends with the check the
\* other phases end with.
BindingHostPaintChecking(self, d, prop) ==
    LET r == CheckForChanges([self EXCEPT !.contained.prop = prop], d)
    IN  [self |-> r.self, steps |-> <<"contained">> \o r.steps, submitted |-> 0]

\* BindingHost::paint
BindingHostPaint(self, d, prop) ==
    [self |-> [self EXCEPT !.contained.prop = prop],
     steps |-> <<"contained">>, submitted |-> 0]

\* What is recorded of a BindingHost dispatch.
HostDispatch(op, event, steps, seen, old_data, atpush) ==
    [op |-> op, event |-> event, steps |-> steps, seen |-> seen,
     old_data |-> old_data, atpush |-> atpush,
     host0 |-> host, data0 |-> bdata, commands0 |-> commands]

\* Nothing dispatched yet.
NoHostDispatch(self, d) ==
    [op |-> "new", event |-> "", steps |-> <<>>, seen |-> None,
     old_data |-> None, atpush |-> None,
     host0 |-> self, data0 |-> d, commands0 |-> 0]

InitBinding ==
    /\ \E prop \in Vals : host = BindingHostNew([prop |-> prop])
    /\ bdata \in BData
    /\ commands = 0
    /\ btrace = NoHostDispatch(host, bdata)

\* An event other than the host's own command reaches the host.
HostEvent ==
    /\ \E after \in BData : \E prop \in Vals :
         LET r == BindingHostEvent(host, "Other", bdata, after, prop)
         IN  /\ host' = r.self
             /\ bdata' = r.data
             /\ btrace' = HostDispatch("event", "Other", r.steps, r.seen, None, None)
    /\ UNCHANGED <<commands, contentVars, scopeVars, pairVars, tabsVars, hitVars, subVars>>

\* The host's own APPLY_BINDINGS command is delivered to it.
HostApplyBindings ==
    /\ commands > 0
    /\ LET r == BindingHostEvent(host, "APPLY_BINDINGS", bdata, bdata, host.contained.prop)
       IN  /\ host' = r.self
           /\ bdata' = r.data
           /\ btrace' = HostDispatch("event", "APPLY_BINDINGS", r.steps, r.seen, None, None)
    /\ commands' = commands - 1
    /\ UNCHANGED <<contentVars, scopeVars, pairVars, tabsVars, hitVars, subVars>>

HostLifecycle ==
    /\ \E prop \in Vals :
         LET r == BindingHostReadOnly(host, bdata, prop)
         IN  /\ commands + r.submitted <= MaxCommands
             /\ host' = r.self
             /\ commands' = commands + r.submitted
             /\ btrace' = HostDispatch("lifecycle", "", r.steps, Some(bdata), None, None)
    /\ UNCHANGED <<bdata, contentVars, scopeVars, pairVars, tabsVars, hitVars, subVars>>

HostLayout ==
    /\ \E prop \in Vals :
         LET r == BindingHostReadOnly(host, bdata, prop)
         IN  /\ commands + r.submitted <= MaxCommands
             /\ host' = r.self
             /\ commands' = commands + r.submitted
             /\ btrace' = HostDispatch("layout", "", r.steps, Some(bdata), None, None)
    /\ UNCHANGED <<bdata, contentVars, scopeVars, pairVars, tabsVars, hitVars, subVars>>

\* BindingHost::update with any old data.
HostUpdate ==
    /\ \E old_data \in BData : \E prop \in Vals :
         LET r == BindingHostUpdate(host, old_data, bdata, prop)
         IN  /\ commands + r.submitted <= MaxCommands
             /\ host' = r.self
             /\ commands' = commands + r.submitted
             /\ btrace' = HostDispatch("update", "", r.steps, Some(bdata),
                                       Some(old_data), Some(r.atpush))
    /\ UNCHANGED <<bdata, contentVars, scopeVars, pairVars, tabsVars, hitVars, subVars>>

HostPaint ==
    /\ \E prop \in Vals :
         LET r == BindingHostPaint(host, bdata, prop)
         IN  /\ host' = r.self
             /\ commands' = commands + r.submitted
             /\ btrace' = HostDispatch("paint", "", r.steps, Some(bdata), None, None)
    /\ UNCHANGED <<bdata, contentVars, scopeVars, pairVars, tabsVars, hitVars, subVars>>

\* The owner of the data changes it between dispatches.
SetData ==
    /\ \E d \in BData \ {bdata} : bdata' = d
    /\ btrace' = HostDispatch("set_data", "", <<>>, None, None, None)
    /\ UNCHANGED <<host, commands, contentVars, scopeVars, pairVars, tabsVars, hitVars, subVars>>

NextBinding ==
    \/ HostEvent
    \/ HostApplyBindings
    \/ HostLifecycle
    \/ HostLayout
    \/ HostUpdate
    \/ HostPaint
    \/ SetData

(***************************************************************************)
(* Properties of the BindingHost.                                          *)
(***************************************************************************)
\* The last n steps of the latest dispatch.
LastSteps(n) ==
    IF Len(btrace.steps) < n THEN <<>>
    ELSE SubSeq(btrace.steps, Len(btrace.steps) - n + 1, Len(btrace.steps))

\* The latest dispatch's check found a divergence.
Diverged == Count(btrace.steps, "check_found") = 1

(***************************************************************************)
(* C16.  BindingHost.event applies a pending change to the data as its     *)
(* first step, so the contained widget is handed the data with the change  *)
(* in it; the change is taken when it is applied, so that nothing of it is *)
(* applied again: a second application in the same event follows a check   *)
(* that found a divergence and writes the controlled property.             *)
(***************************************************************************)
C16_PendingAppliedBeforeEvent ==
    (btrace.op = "event" /\ btrace.host0.pending_change # None) =>
      LET change == btrace.host0.pending_change[1]
          applied == [btrace.data0 EXCEPT !.field = change]
      IN  /\ btrace.steps[1] = "apply_change_to_data"
          /\ btrace.event = "Other" =>
               /\ btrace.seen = Some(applied)
               /\ btrace.steps[2] = "contained"
          /\ Count(btrace.steps, "apply_change_to_data") = (IF Diverged THEN 2 ELSE 1)
          /\ Diverged => /\ LastSteps(2) = <<"check_found", "apply_change_to_data">>
                         /\ bdata.field = host.contained.prop
          /\ (btrace.event = "APPLY_BINDINGS" /\ ~Diverged) => bdata = applied
          /\ host.pending_change = None

\* an event reached the contained widget while a change that alters the
\* data was pending
C16_Witness ==
    /\ btrace.op = "event"
    /\ btrace.event = "Other"
    /\ btrace.host0.pending_change # None
    /\ btrace.host0.pending_change[1] # btrace.data0.field
    /\ btrace.seen # None
    /\ btrace.seen[1].field = btrace.host0.pending_change[1]

(***************************************************************************)
(* C17.  As claimed: in event, lifecycle, update and layout a divergence   *)
(* found by the check after the contained widget's dispatch is not applied *)
(* in that dispatch: it stays pending and a command is submitted.          *)
(***************************************************************************)
C17_DivergenceDeferred ==
    (btrace.op \in {"event", "lifecycle", "update", "layout"} /\ Diverged) =>
      /\ LastSteps(2) = <<"check_found", "submit_command">>
      /\ host.pending_change # None

(***************************************************************************)
(* C17, amended.  In lifecycle, update and layout a divergence found by    *)
(* the check after the contained widget's dispatch is not applied: the     *)
(* data is untouched, the controlled property is left pending and one      *)
(* APPLY_BINDINGS command is submitted to the host; with no divergence     *)
(* nothing is pending and nothing is submitted.  In event the divergence   *)
(* is applied to the data at once, nothing stays pending and no command is *)
(* submitted.                                                              *)
(***************************************************************************)
C17_DeferredOutsideEventOnly ==
    /\ (btrace.op \in {"lifecycle", "update", "layout"} /\ Diverged) =>
         /\ LastSteps(2) = <<"check_found", "submit_command">>
         /\ host.pending_change = Some(host.contained.prop)
         /\ bdata = btrace.data0
         /\ commands = btrace.commands0 + 1
    /\ (btrace.op \in {"lifecycle", "update", "layout"} /\ ~Diverged) =>
         /\ host.pending_change = None
         /\ commands = btrace.commands0
         /\ Count(btrace.steps, "submit_command") = 0
    /\ btrace.op = "event" =>
         /\ host.pending_change = None
         /\ Count(btrace.steps, "submit_command") = 0
         /\ commands <= btrace.commands0
         /\ Diverged => /\ LastSteps(2) = <<"check_found", "apply_change_to_data">>
                        /\ bdata.field = host.contained.prop

\* a layout in which the contained widget moved its property away from the
\* data field
C17_Witness ==
    /\ btrace.op = "layout"
    /\ Diverged
    /\ btrace.host0.contained.prop = bdata.field
    /\ btrace.host0.pending_change = None
    /\ host.pending_change # None
    /\ commands = btrace.commands0 + 1

(***************************************************************************)
(* C18.  BindingHost.paint leaves the data and the pending change as they  *)
(* were and submits no command; lifecycle, update and layout leave the     *)
(* data as it was.                                                         *)
(***************************************************************************)
C18_PaintReadOnly ==
    /\ btrace.op = "paint" =>
         /\ bdata = btrace.data0
         /\ host.pending_change = btrace.host0.pending_change
         /\ commands = btrace.commands0
         /\ btrace.steps = <<"contained">>
    /\ btrace.op \in {"lifecycle", "update", "layout"} => bdata = btrace.data0

\* a paint in which the contained widget moved its property away from the
\* data field, with nothing pending before or after
C18_Witness ==
    /\ btrace.op = "paint"
    /\ btrace.host0.contained.prop = bdata.field
    /\ host.contained.prop # bdata.field
    /\ host.pending_change = None

(***************************************************************************)
(* C19.  Convergence of a lens binding: detecting a divergence and         *)
(* applying the detected change makes the data field the same as the       *)
(* controlled property, and a detect after that reports none.  So it is    *)
(* for the detect and apply at the end of an event, and for a change       *)
(* detected in an earlier dispatch and applied by APPLY_BINDINGS with      *)
(* nothing changed in between.                                             *)
(***************************************************************************)
C19_DetectApplyConverges ==
    /\ LET detected == CheckForChanges(host, bdata)
       IN  detected.ret =>
             LET applied == ApplyPendingChanges(detected.self, bdata)
                 again == CheckForChanges(applied.self, applied.data)
             IN  /\ applied.data.field = host.contained.prop
                 /\ ~again.ret
                 /\ again.self.pending_change = None
    /\ (btrace.op = "event" /\ Diverged) =>
         /\ bdata.field = host.contained.prop
         /\ ~CheckForChanges(host, bdata).ret
    /\ ( /\ btrace.op = "event"
         /\ btrace.event = "APPLY_BINDINGS"
         /\ btrace.host0.pending_change = Some(btrace.host0.contained.prop) ) =>
         /\ bdata.field = host.contained.prop
         /\ host.pending_change = None
         /\ ~Diverged

\* APPLY_BINDINGS applied a change detected before: the data field was
\* different from the property and is now the same
C19_Witness ==
    /\ btrace.op = "event"
    /\ btrace.event = "APPLY_BINDINGS"
    /\ btrace.host0.pending_change = Some(btrace.host0.contained.prop)
    /\ btrace.data0.field # btrace.host0.contained.prop
    /\ bdata.field = host.contained.prop
    /\ host.pending_change = None

(***************************************************************************)
(* C20.  BindingHost.update pushes the data to the controlled widget       *)
(* exactly when old and new data are not the same, and before the          *)
(* contained widget's update, which finds the controlled property equal to *)
(* the data field; if that update leaves the property alone, nothing is    *)
(* pending afterwards, whatever was pending before.                        *)
(***************************************************************************)
C20_DataPushedOnChange ==
    btrace.op = "update" =>
      LET pushed == btrace.old_data[1] # btrace.data0
      IN  /\ Count(btrace.steps, "apply_data_to_controlled") = (IF pushed THEN 1 ELSE 0)
          /\ pushed =>
               /\ Only(btrace.steps, {"apply_data_to_controlled", "contained"})
                    = <<"apply_data_to_controlled", "contained">>
               /\ btrace.atpush[1].prop = bdata.field
               /\ host.contained.prop = btrace.atpush[1].prop =>
                    (host.pending_change = None /\ ~Diverged)
          /\ ~pushed => btrace.atpush[1] = btrace.host0.contained

\* an update with changed data while a change of the controlled widget was
\* pending: the property now is the data field and nothing is pending
C20_Witness ==
    /\ btrace.op = "update"
    /\ btrace.old_data[1] # btrace.data0
    /\ btrace.host0.pending_change # None
    /\ btrace.host0.contained.prop # bdata.field
    /\ host.contained.prop = bdata.field
    /\ host.pending_change = None

(***************************************************************************)
(* C37.  A divergence that lifecycle, update or layout detects is applied  *)
(* by the host's own command.  Each of these phases submits one            *)
(* APPLY_BINDINGS command to the host when its check finds a divergence    *)
(* and none when it does not.  The handling of the command leaves the data *)
(* field the same as the controlled property, marks the command handled    *)
(* and does not pass it to the contained widget.  With every submitted     *)
(* command delivered, a divergence detected in these phases leads to a     *)
(* handling of the command after which the data holds the controlled       *)
(* value.                                                                  *)
(***************************************************************************)
C37_Step ==
    /\ btrace.op \in {"lifecycle", "update", "layout"} =>
         /\ Count(btrace.steps, "submit_command") = (IF Diverged THEN 1 ELSE 0)
         /\ commands = btrace.commands0 + (IF Diverged THEN 1 ELSE 0)
         /\ Diverged = (host.pending_change # None)
         /\ bdata = btrace.data0
    /\ (btrace.op = "event" /\ btrace.event = "APPLY_BINDINGS") =>
         /\ commands = btrace.commands0 - 1
         /\ Count(btrace.steps, "set_handled") = 1
         /\ Count(btrace.steps, "contained") = 0
         /\ btrace.seen = None
         /\ btrace.host0.pending_change # None =>
              btrace.steps[1] = "apply_change_to_data"
         /\ host.contained = btrace.host0.contained
         /\ bdata.field = host.contained.prop
         /\ bdata.rest = btrace.data0.rest
         /\ host.pending_change = None

\* lifecycle, update or layout has just detected a divergence
C37_Detected ==
    /\ btrace.op \in {"lifecycle", "update", "layout"}
    /\ Diverged

\* the host's command has just been handled and the data holds the
\* controlled value
C37_Applied ==
    /\ btrace.op = "event"
    /\ btrace.event = "APPLY_BINDINGS"
    /\ bdata.field = host.contained.prop

C37_DetectedIsApplied == []C37_Step /\ (C37_Detected ~> C37_Applied)

\* C37 happens: the command was handled with a change pending, and the data
\* field went from another value to the controlled property's.
C37_Witness ==
    /\ btrace.op = "event"
    /\ btrace.event = "APPLY_BINDINGS"
    /\ btrace.host0.pending_change # None
    /\ btrace.data0.field # btrace.host0.contained.prop
    /\ bdata.field = host.contained.prop

(***************************************************************************)
(* A pair of bindings used as one binding (Binding for (Bind1, Bind2)).    *)
(* Each component is a LensBinding, named by the data field and the        *)
(* property of the controlled widget it ties together.  The two may tie    *)
(* the same field, or the same property, so that the order in which they   *)
(* act shows in the values.                                                *)
(***************************************************************************)
PData == [f0 : Vals, f1 : Vals]

PControlled == [p0 : Vals, p1 : Vals]

\* LensBinding::new(lens_from_data, lens_from_controlled)
LensBindingNew(lens_from_data, lens_from_controlled) ==
    [lens_from_data |-> lens_from_data, lens_from_controlled |-> lens_from_controlled]

\* The pairs the model runs with: (Bind1, Bind2)
PairBindings ==
    { <<LensBindingNew("f0", "p0"), LensBindingNew("f1", "p1")>>,
      <<LensBindingNew("f0", "p0"), LensBindingNew("f0", "p1")>>,
      <<LensBindingNew("f0", "p0"), LensBindingNew("f1", "p0")>> }

\* LensBinding::apply_data_to_controlled, for any two lenses
LensApplyDataToControlled(b, d, controlled) ==
    [controlled EXCEPT ![b.lens_from_controlled] = d[b.lens_from_data]]

\* LensBinding::append_change_required, for any two lenses
LensAppendChangeRequired(b, controlled, d, change) ==
    IF controlled[b.lens_from_controlled] = d[b.lens_from_data]
    THEN None
    ELSE Some(controlled[b.lens_from_controlled])

\* LensBinding::apply_change_to_data, for any two lenses
LensApplyChangeToData(b, controlled, d, change) ==
    [d EXCEPT ![b.lens_from_data] = change]

\* (Bind1, Bind2)::apply_data_to_controlled
PairApplyDataToControlled(pair, d, controlled) ==
    LET c0 == LensApplyDataToControlled(pair[1], d, controlled)
        c1 == LensApplyDataToControlled(pair[2], d, c0)
    IN  [controlled |-> c1, steps |-> <<"push0", "push1">>]

\* (Bind1, Bind2)::append_change_required: the change afterwards
PairAppendChangeRequired(pair, controlled, d, change) ==
    LET both == IF change = None THEN <<None, None>> ELSE change[1]
        change0 == LensAppendChangeRequired(pair[1], controlled, d, both[1])
        change1 == LensAppendChangeRequired(pair[2], controlled, d, both[2])
    IN  IF change0 = None /\ change1 = None THEN None ELSE Some(<<change0, change1>>)

\* A faulty variant of PairApplyChangeToData: the second component's change
\* is applied before the first's.
PairApplyChangeToDataSecondFirst(pair, controlled, d, change) ==
    LET d1 == IF change[2] # None
              THEN LensApplyChangeToData(pair[2], controlled, d, change[2][1]) ELSE d
        d0 == IF change[1] # None
              THEN LensApplyChangeToData(pair[1], controlled, d1, change[1][1]) ELSE d1
    IN  [data |-> d0,
         steps |-> (IF change[2] # None THEN <<"apply1">> ELSE <<>>)
                   \o (IF change[1] # None THEN <<"apply0">> ELSE <<>>)]

\* (Bind1, Bind2)::apply_change_to_data
PairApplyChangeToData(pair, controlled, d, change) ==
    LET d0 == IF change[1] # None
              THEN LensApplyChangeToData(pair[1], controlled, d, change[1][1]) ELSE d
        d1 == IF change[2] # None
              THEN LensApplyChangeToData(pair[2], controlled, d0, change[2][1]) ELSE d0
    IN  [data |-> d1,
         steps |-> (IF change[1] # None THEN <<"apply0">> ELSE <<>>)
                   \o (IF change[2] # None THEN <<"apply1">> ELSE <<>>)]

\* BindingHost::new(contained, binding) with a pair binding
PairHostNew(contained, binding) ==
    [contained |-> contained, binding |-> binding, pending_change |-> None]

\* What is recorded of an operation of the pair binding.
PairOp(op, steps) ==
    [op |-> op, steps |-> steps, host0 |-> phost, data0 |-> pdata]

InitPair ==
    /\ \E binding \in PairBindings : \E contained \in PControlled :
         phost = PairHostNew(contained, binding)
    /\ pdata \in PData
    /\ ptrace = [op |-> "new", steps |-> <<>>, host0 |-> phost, data0 |-> pdata]

\* BindingHost::check_for_changes, at the end of any phase but paint
PairCheck ==
    /\ phost' = [phost EXCEPT !.pending_change =
                   PairAppendChangeRequired(phost.binding, phost.contained, pdata, @)]
    /\ ptrace' = PairOp("check", <<>>)
    /\ UNCHANGED <<pdata, contentVars, scopeVars, hostVars, tabsVars, hitVars, subVars>>

\* BindingHost::apply_pending_changes, in event
PairApply ==
    /\ phost.pending_change # None
    /\ LET r == PairApplyChangeToData(phost.binding, phost.contained, pdata,
                                      phost.pending_change[1])
       IN  /\ pdata' = r.data
           /\ ptrace' = PairOp("apply", r.steps)
    /\ phost' = [phost EXCEPT !.pending_change = None]
    /\ UNCHANGED <<contentVars, scopeVars, hostVars, tabsVars, hitVars, subVars>>

\* BindingHost::update with changed data: the push to the controlled widget
PairPush ==
    /\ LET r == PairApplyDataToControlled(phost.binding, pdata, phost.contained)
       IN  /\ phost' = [phost EXCEPT !.contained = r.controlled]
           /\ ptrace' = PairOp("push", r.steps)
    /\ UNCHANGED <<pdata, contentVars, scopeVars, hostVars, tabsVars, hitVars, subVars>>

\* The contained widget changes its properties in one of its own methods.
PairWidgetChange ==
    /\ \E c \in PControlled \ {phost.contained} : phost' = [phost EXCEPT !.contained = c]
    /\ ptrace' = PairOp("widget", <<>>)
    /\ UNCHANGED <<pdata, contentVars, scopeVars, hostVars, tabsVars, hitVars, subVars>>

\* The owner of the data changes it.
PairSetData ==
    /\ \E d \in PData \ {pdata} : pdata' = d
    /\ ptrace' = PairOp("set_data", <<>>)
    /\ UNCHANGED <<phost, contentVars, scopeVars, hostVars, tabsVars, hitVars, subVars>>

NextPair == PairCheck \/ PairApply \/ PairPush \/ PairWidgetChange \/ PairSetData

(***************************************************************************)
(* C21.  A pair of bindings as one binding.  After a check the composite   *)
(* change is None exactly when neither component reports a change, and     *)
(* otherwise the pair of what each component reports.  Applying a          *)
(* composite change applies the components that are present and no other,  *)
(* the first before the second.  A push goes through the first component   *)
(* and then the second.                                                    *)
(***************************************************************************)
C21_PairActsAsBoth ==
    LET b == ptrace.host0.binding
        c == ptrace.host0.contained
        d == ptrace.data0
        was == ptrace.host0.pending_change
    IN  /\ ptrace.op = "check" =>
             LET old == IF was = None THEN <<None, None>> ELSE was[1]
                 r0 == LensAppendChangeRequired(b[1], c, d, old[1])
                 r1 == LensAppendChangeRequired(b[2], c, d, old[2])
             IN  /\ (phost.pending_change = None) = (r0 = None /\ r1 = None)
                 /\ phost.pending_change # None => phost.pending_change[1] = <<r0, r1>>
        /\ ptrace.op = "apply" =>
             LET ch == was[1]
                 present == (IF ch[1] # None THEN <<"apply0">> ELSE <<>>)
                            \o (IF ch[2] # None THEN <<"apply1">> ELSE <<>>)
             IN  /\ ptrace.steps = present
                 /\ ch[2] # None => pdata[b[2].lens_from_data] = ch[2][1]
                 /\ (ch[1] # None /\ (ch[2] = None \/ b[1].lens_from_data # b[2].lens_from_data))
                      => pdata[b[1].lens_from_data] = ch[1][1]
                 /\ \A f \in {"f0", "f1"} :
                      (\A i \in 1..2 : ch[i] = None \/ b[i].lens_from_data # f)
                        => pdata[f] = d[f]
                 /\ phost.pending_change = None
        /\ ptrace.op = "push" =>
             /\ ptrace.steps = <<"push0", "push1">>
             /\ phost.contained[b[2].lens_from_controlled] = pdata[b[2].lens_from_data]
             /\ b[1].lens_from_controlled # b[2].lens_from_controlled =>
                  phost.contained[b[1].lens_from_controlled] = pdata[b[1].lens_from_data]

\* both components had a change for the same data field, and the change of
\* the second is the one the field holds after the apply
C21_Witness ==
    /\ ptrace.op = "apply"
    /\ ptrace.steps = <<"apply0", "apply1">>
    /\ ptrace.host0.binding[1].lens_from_data = ptrace.host0.binding[2].lens_from_data
    /\ ptrace.host0.pending_change[1][1] # ptrace.host0.pending_change[1][2]
    /\ pdata.f0 = ptrace.host0.pending_change[1][2][1]

(***************************************************************************)
(* A BindingHost over any binding of the source: a LensBinding, a          *)
(* LensPropBinding (a data field bound to a BindableProperty of the        *)
(* controlled widget, here the ScrollToProperty of a Scroll, whose offset  *)
(* along a direction is the property p0 or p1), or a pair of these.        *)
(***************************************************************************)
\* ScrollToProperty::new(direction)
ScrollToPropertyNew(direction) == [direction |-> direction]

\* LensPropBinding::new(lens_from_data, prop_from_controlled)
LensPropBindingNew(lens_from_data, prop_from_controlled) ==
    [kind |-> "prop", lens_from_data |-> lens_from_data,
     prop_from_controlled |-> prop_from_controlled]

\* LensBinding::new, tagged with its kind
TaggedLensBinding(lens_from_data, lens_from_controlled) ==
    [kind |-> "lens", lens_from_data |-> lens_from_data,
     lens_from_controlled |-> lens_from_controlled]

\* BindingExt::and
And(bind0, bind1) == [kind |-> "pair", bind0 |-> bind0, bind1 |-> bind1]

\* The bindings the host is run with.
HostBindings ==
    { TaggedLensBinding("f0", "p0"),
      LensPropBindingNew("f0", ScrollToPropertyNew("p0")),
      And(TaggedLensBinding("f0", "p0"), LensPropBindingNew("f1", ScrollToPropertyNew("p1"))) }

\* ScrollToProperty::write_prop: scroll_to_direction with a position the
\* Scroll can take
WriteProp(prop, controlled, position) == [controlled EXCEPT ![prop.direction] = position]

\* ScrollToProperty::append_changes: the change afterwards; Change is ()
AppendChanges(prop, controlled, field_val, change) ==
    IF controlled[prop.direction] # field_val THEN Some("unit") ELSE change

\* ScrollToProperty::update_data_from_change: the field afterwards
UpdateDataFromChange(prop, controlled, field, change) == controlled[prop.direction]

\* Binding::apply_data_to_controlled of a LensBinding or a LensPropBinding
LeafApplyDataToControlled(b, d, controlled) ==
    IF b.kind = "lens" THEN LensApplyDataToControlled(b, d, controlled)
    ELSE WriteProp(b.prop_from_controlled, controlled, d[b.lens_from_data])

\* Binding::append_change_required of a LensBinding or a LensPropBinding
LeafAppendChangeRequired(b, controlled, d, change) ==
    IF b.kind = "lens" THEN LensAppendChangeRequired(b, controlled, d, change)
    ELSE AppendChanges(b.prop_from_controlled, controlled, d[b.lens_from_data], change)

\* Binding::apply_change_to_data of a LensBinding or a LensPropBinding
LeafApplyChangeToData(b, controlled, d, change) ==
    IF b.kind = "lens" THEN LensApplyChangeToData(b, controlled, d, change)
    ELSE [d EXCEPT ![b.lens_from_data] =
            UpdateDataFromChange(b.prop_from_controlled, controlled, @, change)]

\* Binding::apply_data_to_controlled of any binding
AnyApplyDataToControlled(b, d, controlled) ==
    IF b.kind = "pair"
    THEN LeafApplyDataToControlled(b.bind1, d,
             LeafApplyDataToControlled(b.bind0, d, controlled))
    ELSE LeafApplyDataToControlled(b, d, controlled)

\* Binding::append_change_required of any binding: the change afterwards
AnyAppendChangeRequired(b, controlled, d, change) ==
    IF b.kind = "pair"
    THEN LET both == IF change = None THEN <<None, None>> ELSE change[1]
             change0 == LeafAppendChangeRequired(b.bind0, controlled, d, both[1])
             change1 == LeafAppendChangeRequired(b.bind1, controlled, d, both[2])
         IN  IF change0 = None /\ change1 = None THEN None
             ELSE Some(<<change0, change1>>)
    ELSE LeafAppendChangeRequired(b, controlled, d, change)

\* Binding::apply_change_to_data of any binding
AnyApplyChangeToData(b, controlled, d, change) ==
    IF b.kind = "pair"
    THEN LET d0 == IF change[1] # None
                   THEN LeafApplyChangeToData(b.bind0, controlled, d, change[1][1])
                   ELSE d
         IN  IF change[2] # None
             THEN LeafApplyChangeToData(b.bind1, controlled, d0, change[2][1])
             ELSE d0
    ELSE LeafApplyChangeToData(b, controlled, d, change)

\* BindingHost::apply_pending_changes, for any binding
AnyApplyPendingChanges(self, d) ==
    IF self.pending_change # None
    THEN [self |-> [self EXCEPT !.pending_change = None],
          data |-> AnyApplyChangeToData(self.binding, self.contained, d,
                                        self.pending_change[1])]
    ELSE [self |-> self, data |-> d]

\* BindingHost::check_for_changes, for any binding
AnyCheckForChanges(self, d) ==
    [self EXCEPT !.pending_change =
        AnyAppendChangeRequired(self.binding, self.contained, d, @)]

\* The tail of lifecycle, update and layout, for any binding
AnyCheckAndSubmit(self, d) ==
    LET checked == AnyCheckForChanges(self, d)
    IN  [self |-> checked,
         steps |-> IF checked.pending_change # None THEN <<"submit_command">> ELSE <<>>]

\* BindingHost::event, for any binding.  The contained widget, when it gets
\* the event, leaves the data as `after` and its properties as `contained`.
AnyHostEvent(self, event, d, after, contained) ==
    LET a == AnyApplyPendingChanges(self, d)
        afterw == IF event = "APPLY_BINDINGS" THEN a
                  ELSE [self |-> [a.self EXCEPT !.contained = contained], data |-> after]
        c == AnyCheckForChanges(afterw.self, afterw.data)
    IN  IF c.pending_change # None THEN AnyApplyPendingChanges(c, afterw.data)
        ELSE [self |-> c, data |-> afterw.data]

\* BindingHost::lifecycle and BindingHost::layout, for any binding
AnyHostReadOnly(self, d, contained) ==
    AnyCheckAndSubmit([self EXCEPT !.contained = contained], d)

\* BindingHost::update, for any binding.  The contained widget's update
\* leaves its properties as they are (None) or as `contained` holds.
AnyHostUpdate(self, old_data, d, contained) ==
    LET pushed == IF old_data # d
                  THEN [self EXCEPT !.contained =
                           AnyApplyDataToControlled(self.binding, d, @)]
                  ELSE self
        afterw == IF contained = None THEN pushed
                  ELSE [pushed EXCEPT !.contained = contained[1]]
    IN  AnyCheckAndSubmit(afterw, d)

\* What is recorded of a dispatch to the host.
AnyOp(op, steps) == [op |-> op, steps |-> steps]

InitAny ==
    /\ \E binding \in HostBindings : \E contained \in PControlled :
         phost = PairHostNew(contained, binding)
    /\ pdata \in PData
    /\ commands = 0
    /\ ptrace = AnyOp("new", <<>>)

\* An event other than the host's own command reaches the host.
AnyEvent ==
    /\ \E after \in PData : \E contained \in PControlled :
         LET r == AnyHostEvent(phost, "Other", pdata, after, contained)
         IN  /\ phost' = r.self
             /\ pdata' = r.data
    /\ ptrace' = AnyOp("event", <<>>)
    /\ UNCHANGED <<commands, host, bdata, btrace, contentVars, scopeVars, tabsVars, hitVars, subVars>>

\* The host's own APPLY_BINDINGS command is delivered to it.
AnyApplyBindings ==
    /\ commands > 0
    /\ LET r == AnyHostEvent(phost, "APPLY_BINDINGS", pdata, pdata, phost.contained)
       IN  /\ phost' = r.self
           /\ pdata' = r.data
    /\ commands' = commands - 1
    /\ ptrace' = AnyOp("event", <<"set_handled">>)
    /\ UNCHANGED <<host, bdata, btrace, contentVars, scopeVars, tabsVars, hitVars, subVars>>

\* BindingHost::lifecycle or BindingHost::layout; the contained widget may
\* change its properties in either.
AnyReadOnly ==
    /\ \E op \in {"lifecycle", "layout"} : \E contained \in PControlled :
         LET r == AnyHostReadOnly(phost, pdata, contained)
         IN  /\ commands + Len(r.steps) <= MaxCommands
             /\ phost' = r.self
             /\ commands' = commands + Len(r.steps)
             /\ ptrace' = AnyOp(op, r.steps)
    /\ UNCHANGED <<pdata, host, bdata, btrace, contentVars, scopeVars, tabsVars, hitVars, subVars>>

\* BindingHost::update, with the data changed since the last update or not.
AnyUpdate ==
    /\ \E changed \in BOOLEAN : \E contained \in {None} \cup {Some(c) : c \in PControlled} :
         LET old_data == IF changed THEN [pdata EXCEPT !.f0 = (@ + 1) % (MaxVal + 1)]
                         ELSE pdata
             r == AnyHostUpdate(phost, old_data, pdata, contained)
         IN  /\ commands + Len(r.steps) <= MaxCommands
             /\ phost' = r.self
             /\ commands' = commands + Len(r.steps)
             /\ ptrace' = AnyOp("update", r.steps)
    /\ UNCHANGED <<pdata, host, bdata, btrace, contentVars, scopeVars, tabsVars, hitVars, subVars>>

\* The owner of the data changes it.
AnySetData ==
    /\ \E d \in PData \ {pdata} : pdata' = d
    /\ ptrace' = AnyOp("set_data", <<>>)
    /\ UNCHANGED <<phost, hostVars, contentVars, scopeVars, tabsVars, hitVars, subVars>>

NextAny == AnyEvent \/ AnyApplyBindings \/ AnyReadOnly \/ AnyUpdate \/ AnySetData

\* The controlled property and the data field of a binding differ.
LeafDiffers(b, controlled, d) ==
    IF b.kind = "lens" THEN controlled[b.lens_from_controlled] # d[b.lens_from_data]
    ELSE controlled[b.prop_from_controlled.direction] # d[b.lens_from_data]

AnyDiffers(b, controlled, d) ==
    IF b.kind = "pair"
    THEN LeafDiffers(b.bind0, controlled, d) \/ LeafDiffers(b.bind1, controlled, d)
    ELSE LeafDiffers(b, controlled, d)

(***************************************************************************)
(* C38.  As claimed: for a lens binding, a property binding and a pair of  *)
(* them, after every lifecycle, update, layout or event call of the host   *)
(* a pending change is present only if the controlled property and the     *)
(* data field differ, and a call that leaves them the same submits no      *)
(* APPLY_BINDINGS command.                                                 *)
(***************************************************************************)
C38_PendingOnlyWhileDiverged ==
    ptrace.op \in {"lifecycle", "update", "layout", "event"} =>
      /\ phost.pending_change # None =>
           AnyDiffers(phost.binding, phost.contained, pdata)
      /\ Count(ptrace.steps, "submit_command") > 0 =>
           AnyDiffers(phost.binding, phost.contained, pdata)

\* for the lens binding the claim holds
C38_LensPendingOnlyWhileDiverged ==
    phost.binding.kind = "lens" => C38_PendingOnlyWhileDiverged

(***************************************************************************)
(* The Tabs widget (widget/tabs.rs): a Tabs node that, once added, holds a *)
(* Scope over a TabBar and a TabsBody.  The data T is the list of tab keys *)
(* a dynamic policy derives its tabs from; a static policy has a fixed     *)
(* number of tabs and does not look at the data.  A tab body pod is        *)
(* modelled by its identity; the pods of the bar's labels all look alike.  *)
(***************************************************************************)
\* tab keys are 1..NumTabKeys
NumTabKeys == 2
\* tab body pods ever created in one run
MaxBodies == 3
\* Number of nanos
MILLIS == 1000000

TabKeys == 1..NumTabKeys

\* The data: a list of different tab keys.
TData ==
    {d \in SeqUpTo(TabKeys, NumTabKeys) : \A i, j \in 1..Len(d) : i # j => d[i] # d[j]}

\* the interval of an AnimFrame
FrameDeltas == {0, 125 * MILLIS, 250 * MILLIS}

\* StaticTabs::build: a policy made of `count` initial tabs
StaticTabs(count) == [kind |-> "static", count |-> count, taken |-> {}, nobody |-> {}]

\* a policy that derives its tabs from the data (examples/tabs.rs)
DynamicTabs == [kind |-> "dynamic", count |-> 0, taken |-> {}, nobody |-> {}]

\* a policy that derives its tabs from the data and whose body_from_key
\* gives None for the keys in `nobody`
PartialTabs(nobody) == [DynamicTabs EXCEPT !.nobody = nobody]

\* TabsFromData::tabs
TabSetOf(tfd, d) == IF tfd.kind = "static" THEN <<>> ELSE d

\* TabsFromData::tabs_changed
TabsChanged(tfd, old_data, d) ==
    IF tfd.kind = "static" THEN None
    ELSE IF TabSetOf(tfd, d) # TabSetOf(tfd, old_data) THEN Some(TabSetOf(tfd, d))
    ELSE None

\* TabsFromData::keys_from_set
KeysFromSet(tfd, set) ==
    IF tfd.kind = "static" THEN [i \in 1..tfd.count |-> i] ELSE set

\* TabsFromData::body_from_key, then .map(WidgetPod::new) as make_tabs
\* calls it: a static tab's widget can be taken once (the keys in `taken`
\* are gone), a dynamic policy makes a new one on every call, unless it has
\* no body for the key.  A new pod gets the next identity.
BodyFromKey(tfd, key, acc) ==
    IF (tfd.kind = "static" /\ key \in acc.taken) \/ key \in tfd.nobody
    THEN [pod |-> None, next |-> acc.next, taken |-> acc.taken]
    ELSE [pod |-> Some(acc.next), next |-> acc.next + 1,
          taken |-> (IF tfd.kind = "static" THEN acc.taken \cup {key} ELSE acc.taken)]

\* The closure handed to ensure_for_tabs: TabBar::ensure_tabs makes a
\* label pod, TabsBody::make_tabs a body pod if the policy has a body.
MakeContent(who, tfd, key, acc) ==
    IF who = "bar" THEN [pod |-> 0, next |-> acc.next, taken |-> acc.taken]
    ELSE BodyFromKey(tfd, key, acc)

\* contents.drain(..).collect() into a HashMap: a later entry of a key
\* replaces an earlier one.
ExistingByKey(contents) ==
    [k \in {contents[i].key : i \in 1..Len(contents)} |->
       LET at == CHOOSE i \in 1..Len(contents) :
                   /\ contents[i].key = k
                   /\ \A j \in 1..Len(contents) : contents[j].key = k => j <= i
       IN  contents[at].pod]

RECURSIVE EnsureLoop(_, _, _, _, _, _)

\* The loop of ensure_for_tabs from the i-th key on.
EnsureLoop(who, tfd, keys, i, existing_by_key, acc) ==
    IF i > Len(keys) THEN acc
    ELSE LET key == keys[i]
         IN  IF key \in DOMAIN existing_by_key
             THEN EnsureLoop(who, tfd, keys, i + 1,
                      [k \in DOMAIN existing_by_key \ {key} |-> existing_by_key[k]],
                      [acc EXCEPT !.contents = Append(@, [key |-> key,
                                                          pod |-> existing_by_key[key]]),
                                  !.existing_idx = Append(@, Len(acc.contents))])
             ELSE LET made == MakeContent(who, tfd, key, acc)
                  IN  EnsureLoop(who, tfd, keys, i + 1, existing_by_key,
                          [acc EXCEPT !.contents = Append(@, [key |-> key, pod |-> made.pod]),
                                      !.next = made.next,
                                      !.taken = made.taken,
                                      !.made = Append(@, key)])

\* A faulty variant of EnsureForTabs: the content the list had is not
\* looked at, every entry is made by the closure.
EnsureForTabsAllNew(who, contents, tfd, tab_set, next) ==
    EnsureLoop(who, tfd, KeysFromSet(tfd, tab_set), 1, <<>>,
               [contents |-> <<>>, existing_idx |-> <<>>, next |-> next,
                taken |-> tfd.taken, made |-> <<>>])

\* ensure_for_tabs: the contents and the indices of the reused ones, with
\* the pod counter, the static tabs taken and the keys the closure was
\* called for.
EnsureForTabs(who, contents, tfd, tab_set, next) ==
    EnsureLoop(who, tfd, KeysFromSet(tfd, tab_set), 1, ExistingByKey(contents),
               [contents |-> <<>>, existing_idx |-> <<>>, next |-> next,
                taken |-> tfd.taken, made |-> <<>>])

\* The keys of a content list, in order.
KeysOf(contents) == [i \in 1..Len(contents) |-> contents[i].key]

\* A faulty variant of TabsTransitionNew: the direction is the other one.
TabsTransitionNewReversed(previous_idx, length, increasing) ==
    [previous_idx |-> previous_idx, current_time |-> 0,
     length |-> length, increasing |-> ~increasing]

\* TabsTransition::new
TabsTransitionNew(previous_idx, length, increasing) ==
    [previous_idx |-> previous_idx, current_time |-> 0,
     length |-> length, increasing |-> increasing]

\* TabsTransition::live
Live(trans) == trans.current_time < trans.length

\* TabBar::new
TabBarNew == [tabs |-> <<>>]

\* TabsBody::new
TabsBodyNew == [children |-> <<>>, transition |-> None]

\* A faulty variant of Child: the vector is indexed directly, which panics
\* on an index that is out of range; the panic is the pod -1.
ChildUnchecked(children, idx) ==
    IF idx < Len(children) THEN children[idx + 1].pod ELSE Some(-1)

\* TabsBody::child: children.get_mut(idx), then the pod if there is one
Child(children, idx) ==
    IF idx < Len(children) THEN children[idx + 1].pod ELSE None

\* TabsBody::active_child
ActiveChild(body, state) == Child(body.children, state.selected)

\* TabsBody::child_pods, in order
ChildPods(body) ==
    LET with == SelectSeq(body.children, LAMBDA x : x.pod # None)
    IN  [i \in 1..Len(with) |-> with[i].pod[1]]

Events ==
    {"WindowConnected", "WindowSize", "Timer", "Command", "Internal",
     "MouseDown", "MouseUp", "MouseMove", "Wheel", "KeyDown", "KeyUp", "Paste", "Zoom"}

LifeCycles == {"WidgetAdded", "Internal", "Size", "AnimFrame", "HotChanged", "FocusChanged"}

\* A faulty variant of HiddenShouldReceiveEvent: commands reach the
\* selected tab only.
HiddenShouldReceiveEventNoCommand(evt) ==
    evt \in {"WindowConnected", "WindowSize", "Timer", "Internal"}

\* hidden_should_receive_event
HiddenShouldReceiveEvent(evt) ==
    evt \in {"WindowConnected", "WindowSize", "Timer", "Command", "Internal"}

\* hidden_should_receive_lifecycle
HiddenShouldReceiveLifecycle(lc) == lc \in {"WidgetAdded", "Internal"}

\* TabsBody::event: the pods the event is delivered to, in order
TabsBodyEvent(body, event, state) ==
    IF HiddenShouldReceiveEvent(event) THEN ChildPods(body) ELSE ActiveChild(body, state)

\* TabsBody::make_tabs
MakeTabs(body, tfd, tab_set, next) ==
    EnsureForTabs("body", body.children, tfd, tab_set, next)

\* No tabs are made: the children stay as they are.
KeepTabs(body, tfd, next) ==
    [contents |-> body.children, existing_idx |-> <<>>, next |-> next,
     taken |-> tfd.taken, made |-> <<>>]

\* The duration of a transition, 250 * MILLIS
TransitionLength == 250 * MILLIS

\* A faulty variant of AdvanceTransition: a transition that is no longer
\* live is kept.
AdvanceTransitionKeeping(transition, event, interval) ==
    IF transition # None /\ event = "AnimFrame"
    THEN LET trans == [transition[1] EXCEPT !.current_time = @ + interval]
         IN  IF Live(trans)
             THEN [transition |-> Some(trans), requests |-> <<"request_anim_frame">>]
             ELSE [transition |-> Some(trans), requests |-> <<>>]
    ELSE [transition |-> transition, requests |-> <<>>]

\* The end of TabsBody::lifecycle: an AnimFrame advances the transition,
\* which asks for another frame while it is live and is dropped when not.
AdvanceTransition(transition, event, interval) ==
    IF transition # None /\ event = "AnimFrame"
    THEN LET trans == [transition[1] EXCEPT !.current_time = @ + interval]
         IN  IF Live(trans)
             THEN [transition |-> Some(trans), requests |-> <<"request_anim_frame">>]
             ELSE [transition |-> None, requests |-> <<>>]
    ELSE [transition |-> transition, requests |-> <<>>]

\* TabsBody::lifecycle
TabsBodyLifecycle(body, tfd, event, interval, state, next) ==
    LET made == IF event = "WidgetAdded"
                THEN MakeTabs(body, tfd, TabSetOf(tfd, state.inner), next)
                ELSE KeepTabs(body, tfd, next)
        b1 == [body EXCEPT !.children = made.contents]
        adv == AdvanceTransition(b1.transition, event, interval)
    IN  [body |-> [b1 EXCEPT !.transition = adv.transition],
         delivered |-> (IF HiddenShouldReceiveLifecycle(event)
                        THEN ChildPods(b1) ELSE ActiveChild(b1, state)),
         requests |-> adv.requests,
         made |-> made.made, remade |-> event = "WidgetAdded",
         next |-> made.next, taken |-> made.taken]

\* The pods at the given indices, those without a pod left out.
PodsAt(children, idxs) ==
    LET pods == [i \in 1..Len(idxs) |-> Child(children, idxs[i])]
        with == SelectSeq(pods, LAMBDA x : x # None)
    IN  [i \in 1..Len(with) |-> with[i][1]]

\* A faulty variant of TabsBodyUpdate: the update goes to every tab pod,
\* the ones made in this call too.
TabsBodyUpdateAll(body, tfd, old_data, state, next) ==
    LET changed == TabsChanged(tfd, old_data.inner, state.inner)
        made == IF changed # None
                THEN MakeTabs(body, tfd, changed[1], next)
                ELSE KeepTabs(body, tfd, next)
        b1 == [body EXCEPT !.children = made.contents]
        switched == old_data.selected # state.selected
    IN  [body |-> (IF switched
                   THEN [b1 EXCEPT !.transition =
                            Some(TabsTransitionNew(old_data.selected, TransitionLength,
                                                   old_data.selected < state.selected))]
                   ELSE b1),
         delivered |-> ChildPods(b1),
         requests |-> (IF switched THEN <<"request_layout", "request_anim_frame">>
                       ELSE <<>>),
         made |-> made.made, remade |-> changed # None,
         next |-> made.next, taken |-> made.taken]

\* TabsBody::update
TabsBodyUpdate(body, tfd, old_data, state, next) ==
    LET changed == TabsChanged(tfd, old_data.inner, state.inner)
        made == IF changed # None
                THEN MakeTabs(body, tfd, changed[1], next)
                ELSE KeepTabs(body, tfd, next)
        b1 == [body EXCEPT !.children = made.contents]
        switched == old_data.selected # state.selected
    IN  [body |-> (IF switched
                   THEN [b1 EXCEPT !.transition =
                            Some(TabsTransitionNew(old_data.selected, TransitionLength,
                                                   old_data.selected < state.selected))]
                   ELSE b1),
         delivered |-> (IF changed # None
                        THEN PodsAt(b1.children, made.existing_idx)
                        ELSE ChildPods(b1)),
         requests |-> (IF switched THEN <<"request_layout", "request_anim_frame">>
                       ELSE <<>>),
         made |-> made.made, remade |-> changed # None,
         next |-> made.next, taken |-> made.taken]

\* TabsBody::layout: the size of the selected tab's body, or the largest
\* size the constraints allow when there is none.
TabsBodyLayout(body, state) ==
    IF ActiveChild(body, state) # None THEN "child" ELSE "max"

\* A faulty variant of TabsBodyPaint: the previous tab of a transition is
\* not painted.
TabsBodyPaintSelectedOnly(body, state) ==
    Child(body.children, state.selected)

\* TabsBody::paint: the pods painted, in order.
TabsBodyPaint(body, state) ==
    IF body.transition # None
    THEN Child(body.children, body.transition[1].previous_idx)
         \o Child(body.children, state.selected)
    ELSE Child(body.children, state.selected)

\* TabBar::find_idx with every tab one unit long and the position a whole
\* number of units, 1 or more: the tab whose far edge is at the position, if
\* there is one.
FindIdx(bar, pos) ==
    IF pos \in 1..Len(bar.tabs) THEN Some(pos - 1) ELSE None

\* TabBar::ensure_tabs
EnsureTabs(bar, tfd, tab_set) ==
    [bar EXCEPT !.tabs = EnsureForTabs("bar", bar.tabs, tfd, tab_set, 0).contents]

\* A faulty variant of TabBarEventFound: a pointer that moves over a tab
\* selects it too.
TabBarEventFoundSelectingOnMove(hot, event, found, is_hot, state) ==
    LET new_hot == IF is_hot THEN found ELSE None
        changed == event = "MouseMove" /\ new_hot # hot
    IN  [state |-> (IF event \in {"MouseDown", "MouseMove"} /\ found # None
                    THEN [state EXCEPT !.selected = found[1]] ELSE state),
         hot |-> (IF changed THEN new_hot ELSE hot),
         requests |-> (IF changed THEN <<"request_paint">> ELSE <<>>)]

\* The match of TabBar::event, `found` being what find_idx gives for the
\* event's position and `is_hot` what ctx.is_hot() gives: a MouseDown over a
\* tab selects it, a MouseMove sets the hot tab and asks for a paint when
\* it changed, any other event does nothing.  The tabs of the bar get the
\* event afterwards.
TabBarEventFound(hot, event, found, is_hot, state) ==
    LET new_hot == IF is_hot THEN found ELSE None
        changed == event = "MouseMove" /\ new_hot # hot
    IN  [state |-> (IF event = "MouseDown" /\ found # None
                    THEN [state EXCEPT !.selected = found[1]] ELSE state),
         hot |-> (IF changed THEN new_hot ELSE hot),
         requests |-> (IF changed THEN <<"request_paint">> ELSE <<>>)]

\* TabBar::event as the Tabs node sees it: the state afterwards (the hot tab
\* is kept with the hit test of the bar, further on).
TabBarEvent(bar, event, pos, state) ==
    TabBarEventFound(None, event, FindIdx(bar, pos), TRUE, state).state

\* TabBar::lifecycle
TabBarLifecycle(bar, tfd, event, state) ==
    IF event = "WidgetAdded" THEN EnsureTabs(bar, tfd, TabSetOf(tfd, state.inner)) ELSE bar

\* A faulty variant of TabBarUpdate: the bar makes its tabs from the old
\* data.
TabBarUpdateOfOld(bar, tfd, old_data, state) ==
    LET changed == TabsChanged(tfd, old_data.inner, state.inner)
    IN  IF changed # None THEN EnsureTabs(bar, tfd, TabSetOf(tfd, old_data.inner)) ELSE bar

\* TabBar::update
TabBarUpdate(bar, tfd, old_data, state) ==
    LET changed == TabsChanged(tfd, old_data.inner, state.inner)
    IN  IF changed # None THEN EnsureTabs(bar, tfd, changed[1]) ELSE bar

\* TabsContent::Building { tabs }: `count` tabs were added with add_tab
Building(count) == [kind |-> "Building", tabs |-> StaticTabs(count), scope |-> None]

\* TabsContent::Complete { tabs }
Complete(tfd) == [kind |-> "Complete", tabs |-> tfd, scope |-> None]

\* TabsContent::Running { scope }; `tabs` is the policy the TabsState of the
\* scope shares.
Running(tfd, sc) == [kind |-> "Running", tabs |-> tfd, scope |-> Some(sc)]

\* TabsContent::Swapping
Swapping == [kind |-> "Swapping", tabs |-> DynamicTabs, scope |-> None]

\* Tabs::make_scope: a Scope, its policy starting with tab 0 selected, over
\* the bar and the body.
MakeScope(tfd) ==
    [ScopeNew(LensPolicy) EXCEPT
        !.inner = [old_data |-> None, bar |-> TabBarNew, body |-> TabsBodyNew]]

\* What an operation of the Tabs node gives: the node and the data
\* afterwards, and what was seen of it.
TabsOut(self, d, next) ==
    [self |-> self, data |-> d, next |-> next, built |-> FALSE, forwarded |-> FALSE,
     seen |-> None, old_selected |-> None, delivered |-> <<>>, painted |-> <<>>,
     size |-> "none", made |-> <<>>, remade |-> FALSE, requests |-> <<>>]

\* The State the closure of Scope::with_state_mut is handed.
StateSeen(sc, in) ==
    IF sc.content.kind = "Policy"
    THEN PolicyCreate(sc.content.policy[1], in).state
    ELSE sc.content.state

\* Tabs::event: the Scope's event when Running, the bar before the body;
\* the tab pods and the body pods that get the event may leave the inner
\* data as `touched`.
TabsEventOp(self, event, pos, touched, d, next) ==
    IF self.kind # "Running" THEN TabsOut(self, d, next)
    ELSE LET sc == self.scope[1]
             w == sc.inner
             state == StateSeen(sc, d)
             s1 == TabBarEvent(w.bar, event, pos, state)
             delivered == TabsBodyEvent(w.body, event, s1)
             after == IF Len(w.bar.tabs) > 0 \/ delivered # <<>>
                      THEN [s1 EXCEPT !.inner = touched] ELSE s1
             r == WithStateMut(sc, d, after)
             wb == UpdateComputedAndWriteBack(r.self, d)
         IN  [TabsOut([self EXCEPT !.scope = Some(r.self)], wb.data, next) EXCEPT
                 !.forwarded = TRUE, !.seen = Some(s1), !.delivered = delivered,
                 !.requests = <<"request_update">>]

\* A faulty variant of TabsLifecycleOp: a node that is Running makes its
\* scope again on WidgetAdded.
TabsLifecycleOpRebuilding(self, event, interval, d, next) ==
    LET build == event = "WidgetAdded" /\ self.kind \in {"Building", "Complete", "Running"}
        temp == IF build THEN Running(self.tabs, MakeScope(self.tabs)) ELSE self
    IN  IF temp.kind # "Running" THEN TabsOut(temp, d, next)
        ELSE LET r == WithState(temp.scope[1], FALSE, d)
                 w == r.self.inner
                 bar == TabBarLifecycle(w.bar, temp.tabs, event, r.seen)
                 b == TabsBodyLifecycle(w.body, temp.tabs, event, interval, r.seen, next)
                 pod == PodLifecycle([w EXCEPT !.bar = bar, !.body = b.body], event, r.seen)
             IN  [TabsOut([temp EXCEPT !.scope = Some([r.self EXCEPT !.inner = pod]),
                                       !.tabs.taken = b.taken], d, b.next) EXCEPT
                     !.built = build,
                     !.forwarded = TRUE, !.seen = Some(r.seen), !.delivered = b.delivered,
                     !.made = b.made, !.remade = b.remade, !.requests = b.requests]

\* Tabs::lifecycle: on WidgetAdded a node that is Building or Complete makes
\* its scope and is Running, any other stays what it is; the Scope's
\* lifecycle when Running.
TabsLifecycleOp(self, event, interval, d, next) ==
    LET build == event = "WidgetAdded" /\ self.kind \in {"Building", "Complete"}
        temp == IF build THEN Running(self.tabs, MakeScope(self.tabs)) ELSE self
    IN  IF temp.kind # "Running" THEN TabsOut(temp, d, next)
        ELSE LET r == WithState(temp.scope[1], FALSE, d)
                 w == r.self.inner
                 bar == TabBarLifecycle(w.bar, temp.tabs, event, r.seen)
                 b == TabsBodyLifecycle(w.body, temp.tabs, event, interval, r.seen, next)
                 pod == PodLifecycle([w EXCEPT !.bar = bar, !.body = b.body], event, r.seen)
             IN  [TabsOut([temp EXCEPT !.scope = Some([r.self EXCEPT !.inner = pod]),
                                       !.tabs.taken = b.taken], d, b.next) EXCEPT
                     !.built = build,
                     !.forwarded = TRUE, !.seen = Some(r.seen), !.delivered = b.delivered,
                     !.made = b.made, !.remade = b.remade, !.requests = b.requests]

\* Tabs::update: the Scope's update when Running; the bar and the body are
\* updated against the snapshot of their pods.
TabsUpdateOp(self, d, next) ==
    IF self.kind # "Running" THEN TabsOut(self, d, next)
    ELSE LET r == WithState(self.scope[1], TRUE, d)
             w == r.self.inner
             old_data == w.old_data[1]
             bar == TabBarUpdate(w.bar, self.tabs, old_data, r.seen)
             b == TabsBodyUpdate(w.body, self.tabs, old_data, r.seen, next)
             pod == PodUpdate([w EXCEPT !.bar = bar, !.body = b.body], r.seen)
         IN  [TabsOut([self EXCEPT !.scope = Some([r.self EXCEPT !.inner = pod]),
                                   !.tabs.taken = b.taken], d, b.next) EXCEPT
                 !.forwarded = TRUE, !.seen = Some(r.seen), !.old_selected = Some(old_data.selected),
                 !.delivered = b.delivered,
                 !.made = b.made, !.remade = b.remade, !.requests = b.requests]

\* Tabs::layout: the Scope's layout when Running, whose size follows the
\* body's; the smallest size the constraints allow otherwise.
TabsLayoutOp(self, d, next) ==
    IF self.kind # "Running" THEN [TabsOut(self, d, next) EXCEPT !.size = "min"]
    ELSE LET r == WithState(self.scope[1], FALSE, d)
         IN  [TabsOut([self EXCEPT !.scope = Some(r.self)], d, next) EXCEPT
                 !.forwarded = TRUE, !.seen = Some(r.seen),
                 !.size = TabsBodyLayout(r.self.inner.body, r.seen)]

\* Tabs::paint: the Scope's paint when Running.
TabsPaintOp(self, d, next) ==
    IF self.kind # "Running" THEN TabsOut(self, d, next)
    ELSE LET r == WithState(self.scope[1], FALSE, d)
         IN  [TabsOut([self EXCEPT !.scope = Some(r.self)], d, next) EXCEPT
                 !.forwarded = TRUE, !.seen = Some(r.seen),
                 !.painted = TabsBodyPaint(r.self.inner.body, r.seen)]

\* The body of a Running node.
BodyOf(self) == self.scope[1].inner.body

\* What is recorded of an operation on the Tabs node: the operation and its
\* event, what the node was before (with its children and transition when
\* Running, whole when not), the pod counter before, and what the operation
\* gave.
TabsOp(op, event, interval, out) ==
    [op |-> op, event |-> event, interval |-> interval,
     from |-> tabs.kind,
     self0 |-> (IF tabs.kind = "Running" THEN None ELSE Some(tabs)),
     children0 |-> (IF tabs.kind = "Running" THEN BodyOf(tabs).children ELSE <<>>),
     transition0 |-> (IF tabs.kind = "Running" THEN BodyOf(tabs).transition ELSE None),
     next0 |-> tnext, built |-> out.built,
     forwarded |-> out.forwarded, seen |-> out.seen, old_selected |-> out.old_selected,
     delivered |-> out.delivered, painted |-> out.painted, size |-> out.size,
     made |-> out.made, remade |-> out.remade, requests |-> out.requests]

\* The events the Tabs node is dispatched: the one the bar acts on, one more
\* of those for the selected tab, and one of those for every tab.
SomeEvents == {"MouseDown", "KeyDown", "Command"}

\* The lifecycle events the Tabs node is dispatched besides AnimFrame: the
\* one that makes the tabs, one more of those for every tab, and one of
\* those for the selected tab.
SomeLifeCycles == {"WidgetAdded", "Internal", "HotChanged"}

\* The values of the data: a static policy does not look at the data, two
\* values are enough to tell a change.
DataFor(tfd) == IF tfd.kind = "static" THEN {<<>>, <<1>>} ELSE TData

\* Tabs::new with up to NumTabKeys tabs added by add_tab, or Tabs::of a
\* dynamic policy; nothing dispatched yet.
InitTabs ==
    /\ tabs \in {Building(n) : n \in 0..NumTabKeys} \cup {Complete(DynamicTabs)}
    /\ tdata \in DataFor(tabs.tabs)
    /\ tnext = 1
    /\ tdue = FALSE
    /\ ttrace = TabsOp("new", "none", 0, TabsOut(tabs, tdata, tnext))

\* The node, the data and the pod counter after an operation.
TabsDone(op, event, interval, out) ==
    /\ out.next <= MaxBodies + 1
    /\ tabs' = out.self
    /\ tdata' = out.data
    /\ tnext' = out.next
    /\ ttrace' = TabsOp(op, event, interval, out)

\* An event of one of the given kinds reaches the Tabs node, the pods that
\* get it leaving one of the given values as the data; a Running node's
\* Scope asks for an update.
TabsEventOf(events, touches) ==
    /\ \E event \in events, touched \in touches :
         \E pos \in (IF event = "MouseDown" THEN 1..(NumTabKeys + 1) ELSE {1}) :
            TabsDone("event", event, 0,
                     TabsEventOp(tabs, event, pos, touched, tdata, tnext))
    /\ tdue' = (tdue \/ tabs.kind = "Running")
    /\ UNCHANGED <<contentVars, scopeVars, hostVars, pairVars, hitVars, subVars>>

TabsEvent == TabsEventOf(SomeEvents, DataFor(tabs.tabs))

\* A lifecycle event of one of the given kinds, other than an animation
\* frame, reaches the Tabs node.  A node gets WidgetAdded once; `again` lets
\* a node that is Running get it once more.
TabsLifecycleOf(events, again) ==
    /\ \E event \in events \ {"AnimFrame"} :
         /\ (event = "WidgetAdded" /\ tabs.kind = "Running") => again
         /\ TabsDone("lifecycle", event, 0, TabsLifecycleOp(tabs, event, 0, tdata, tnext))
    /\ UNCHANGED <<tdue, contentVars, scopeVars, hostVars, pairVars, hitVars, subVars>>

TabsLifecycle == TabsLifecycleOf(SomeLifeCycles, FALSE)

\* An animation frame with a positive interval.
TabsAnimFrame ==
    /\ \E interval \in FrameDeltas \ {0} :
         TabsDone("lifecycle", "AnimFrame", interval,
                  TabsLifecycleOp(tabs, "AnimFrame", interval, tdata, tnext))
    /\ UNCHANGED <<tdue, contentVars, scopeVars, hostVars, pairVars, hitVars, subVars>>

\* An animation frame that comes with no time passed.
TabsAnimFrameZero ==
    /\ TabsDone("lifecycle", "AnimFrame", 0,
                TabsLifecycleOp(tabs, "AnimFrame", 0, tdata, tnext))
    /\ UNCHANGED <<tdue, contentVars, scopeVars, hostVars, pairVars, hitVars, subVars>>

\* The update that is due after the data changed or an update was asked
\* for.
TabsUpdate ==
    /\ tdue
    /\ TabsDone("update", "none", 0, TabsUpdateOp(tabs, tdata, tnext))
    /\ tdue' = FALSE
    /\ UNCHANGED <<contentVars, scopeVars, hostVars, pairVars, hitVars, subVars>>

\* Layout comes after the update that is due.
TabsLayout ==
    /\ tabs.kind = "Running" => ~tdue
    /\ TabsDone("layout", "none", 0, TabsLayoutOp(tabs, tdata, tnext))
    /\ UNCHANGED <<tdue, contentVars, scopeVars, hostVars, pairVars, hitVars, subVars>>

\* Paint comes after the update that is due.
TabsPaint ==
    /\ tabs.kind = "Running" => ~tdue
    /\ TabsDone("paint", "none", 0, TabsPaintOp(tabs, tdata, tnext))
    /\ UNCHANGED <<tdue, contentVars, scopeVars, hostVars, pairVars, hitVars, subVars>>

\* The owner of the data changes it; an update is due.
TabsSetData ==
    /\ \E d \in DataFor(tabs.tabs) \ {tdata} :
         TabsDone("set_data", "none", 0, TabsOut(tabs, d, tnext))
    /\ tdue' = TRUE
    /\ UNCHANGED <<contentVars, scopeVars, hostVars, pairVars, hitVars, subVars>>

\* Every kind of event, the pods leaving the data with no tab or with one.
TabsEventAny == TabsEventOf(Events, {<<>>, <<1>>})

\* Every kind of lifecycle event, WidgetAdded more than once too.
TabsLifecycleAny == TabsLifecycleOf(LifeCycles, TRUE)

\* A pointer-down event, the pods leaving the data as it is.
TabsPointerDown == TabsEventOf({"MouseDown"}, {tdata})

\* A widget-added notice.
TabsAdded == TabsLifecycleOf({"WidgetAdded"}, FALSE)

NextTabs ==
    \/ TabsEvent
    \/ TabsLifecycle
    \/ TabsAnimFrame
    \/ TabsAnimFrameZero
    \/ TabsUpdate
    \/ TabsLayout
    \/ TabsPaint
    \/ TabsSetData

\* The pod an entry list holds for a key, if the key is in it.
PodOfKey(contents, key) ==
    LET at == {i \in 1..Len(contents) : contents[i].key = key}
    IN  IF at = {} THEN None ELSE contents[CHOOSE i \in at : TRUE].pod

\* C22: a Tabs node is never Swapping between operations and never leaves
\* Running; it becomes Running exactly on a widget-added notice that finds
\* it Building or Complete, which is when its scope is made; until then an
\* event, an update, a layout or a paint leaves the node as it was and
\* reaches no widget, and layout returns the minimum size; a widget-added
\* notice that finds the node Running makes no scope, keeps the pods the
\* body had and the transition.
C22_RunningOnceOnWidgetAdded ==
    LET added == ttrace.op = "lifecycle" /\ ttrace.event = "WidgetAdded"
    IN  /\ tabs.kind # "Swapping"
        /\ ttrace.from = "Running" => tabs.kind = "Running"
        /\ (ttrace.from # "Running" /\ tabs.kind = "Running")
              <=> (added /\ ttrace.from \in {"Building", "Complete"})
        /\ ttrace.built <=> (ttrace.from # "Running" /\ tabs.kind = "Running")
        /\ (ttrace.from # "Running" /\ ttrace.op \in {"event", "update", "layout", "paint"})
              => /\ tabs = ttrace.self0[1]
                 /\ ~ttrace.forwarded
                 /\ ttrace.delivered = <<>> /\ ttrace.painted = <<>>
                 /\ ttrace.op = "layout" => ttrace.size = "min"
        /\ (ttrace.from = "Running" /\ added)
              => /\ BodyOf(tabs).transition = ttrace.transition0
                 /\ \A i \in 1..Len(BodyOf(tabs).children) :
                       LET e == BodyOf(tabs).children[i]
                       IN  PodOfKey(ttrace.children0, e.key) # None
                              => e.pod = PodOfKey(ttrace.children0, e.key)

\* C22 happens: a widget-added notice reached a node that was Running with
\* tab bodies.
C22_Witness ==
    /\ ttrace.op = "lifecycle" /\ ttrace.event = "WidgetAdded"
    /\ ttrace.from = "Running"
    /\ ChildPods(BodyOf(tabs)) # <<>>

\* C23: of the events and lifecycle notices that reach the TabsBody, the
\* pointer, wheel, key, paste and zoom events and the size, anim-frame,
\* hot-changed and focus-changed notices are delivered to the pod of the
\* selected tab if it has one and to no other pod; the window-connected,
\* window-size, timer, command and internal events and the widget-added and
\* internal notices are delivered to every tab pod, in order.
C23_VisibleToSelectedOnly ==
    LET children == BodyOf(tabs).children
        selected == ttrace.seen[1].selected
        visible ==
            \/ /\ ttrace.op = "event"
               /\ ttrace.event \in {"MouseDown", "MouseUp", "MouseMove", "Wheel",
                                    "KeyDown", "KeyUp", "Paste", "Zoom"}
            \/ /\ ttrace.op = "lifecycle"
               /\ ttrace.event \in {"Size", "AnimFrame", "HotChanged", "FocusChanged"}
        hidden ==
            \/ /\ ttrace.op = "event"
               /\ ttrace.event \in {"WindowConnected", "WindowSize", "Timer",
                                    "Command", "Internal"}
            \/ /\ ttrace.op = "lifecycle"
               /\ ttrace.event \in {"WidgetAdded", "Internal"}
        all == {children[i].pod : i \in 1..Len(children)} \ {None}
    IN  (ttrace.forwarded /\ ttrace.op \in {"event", "lifecycle"})
           => /\ visible \/ hidden
              /\ visible =>
                    ttrace.delivered =
                        (IF selected < Len(children) THEN children[selected + 1].pod
                         ELSE <<>>)
              /\ hidden =>
                    /\ {Some(ttrace.delivered[i]) : i \in 1..Len(ttrace.delivered)} = all
                    /\ Len(ttrace.delivered) = Cardinality(all)

\* C23 happens: with two tab pods, a key event went to the selected one only.
C23_Witness ==
    /\ ttrace.op = "event" /\ ttrace.event = "KeyDown"
    /\ ttrace.forwarded
    /\ Len(ChildPods(BodyOf(tabs))) = 2
    /\ Len(ttrace.delivered) = 1

\* The bar of a Running node.
BarOf(self) == self.scope[1].inner.bar

\* C24: in a Running node, which has had its widget-added notice, the keys
\* the bar holds are, in order, the keys the body holds; and after the
\* widget-added notice and after every update both are the keys the policy
\* gives for the data the scope holds.
C24_BarAndBodySameKeys ==
    tabs.kind = "Running"
       => /\ KeysOf(BarOf(tabs).tabs) = KeysOf(BodyOf(tabs).children)
          /\ (\/ ttrace.op = "update"
              \/ ttrace.op = "lifecycle" /\ ttrace.event = "WidgetAdded")
                => KeysOf(BodyOf(tabs).children)
                      = KeysFromSet(tabs.tabs,
                                    TabSetOf(tabs.tabs, ScopeState(tabs.scope[1])[1].inner))

\* C24 happens: an update made the tabs anew, two of them, in another order
\* or with other keys than before.
C24_Witness ==
    /\ tabs.kind = "Running"
    /\ ttrace.op = "update" /\ ttrace.remade
    /\ Len(BarOf(tabs).tabs) = 2
    /\ KeysOf(ttrace.children0) # KeysOf(BodyOf(tabs).children)

\* C25: when the body made its tabs anew, its entries are in the order of
\* the policy's keys; the entry of a key the body had before holds the pod
\* it held; the entry of any other key holds what the factory made, a pod
\* that did not exist before if any, the factory having been called for
\* exactly these keys, in order; so no pod of a key that is gone is held.
C25_ReuseByKey ==
    (ttrace.forwarded /\ ttrace.remade)
       => LET children == BodyOf(tabs).children
              before == {ttrace.children0[i].key : i \in 1..Len(ttrace.children0)}
          IN  /\ KeysOf(children)
                    = KeysFromSet(tabs.tabs,
                                  TabSetOf(tabs.tabs, ScopeState(tabs.scope[1])[1].inner))
              /\ \A i \in 1..Len(children) :
                    IF children[i].key \in before
                    THEN children[i].pod = PodOfKey(ttrace.children0, children[i].key)
                    ELSE \/ children[i].pod = None
                         \/ /\ children[i].pod[1] >= ttrace.next0
                            /\ children[i].pod[1] < tnext
              /\ ttrace.made = SelectSeq(KeysOf(children), LAMBDA k : k \notin before)

\* C25 happens: an update made the tabs anew, key 2 kept the pod 2 and key 1
\* got the third pod made, so one of the two keys had held the pod 1, had
\* gone and has come back with another pod.
C25_Witness ==
    /\ ttrace.op = "update" /\ ttrace.remade
    /\ ttrace.next0 = 3
    /\ PodOfKey(ttrace.children0, 2) = Some(2)
    /\ BodyOf(tabs).children = <<[key |-> 2, pod |-> Some(2)], [key |-> 1, pod |-> Some(3)]>>

\* The selected index a Running node's scope holds.
SelectedOf(self) == ScopeState(self.scope[1])[1].selected

\* C26: in a Running node, which has had its widget-added notice, the
\* selected index is an index of the tab key list: 0 <= selected < number
\* of tabs.
C26_SelectedInRange ==
    tabs.kind = "Running"
       => /\ 0 <= SelectedOf(tabs)
          /\ SelectedOf(tabs) < Len(BodyOf(tabs).children)

\* The case C26 fails on with tabs left: an update for a data change that
\* took the selected tab and every later one away.
C26_ShrunkBelowSelected ==
    /\ tabs.kind = "Running"
    /\ ttrace.op = "update" /\ ttrace.remade
    /\ Len(BodyOf(tabs).children) > 0
    /\ SelectedOf(tabs) >= Len(BodyOf(tabs).children)

\* C27: whatever the selected index and the previous index of a transition
\* are, an operation on the body reaches only pods the body holds, so none
\* from beyond the end of the child list; with the selected index at or
\* beyond the end of the list, layout returns the maximum size and paint
\* draws nothing for the selected tab, and with the previous index of the
\* transition there paint draws nothing for the previous tab.
C27_MissingChildIsAbsent ==
    ttrace.forwarded
       => LET body == BodyOf(tabs)
              n == Len(body.children)
              held == {body.children[i].pod : i \in 1..n} \ {None}
              selected == ttrace.seen[1].selected
              At(idx) == IF idx < n THEN body.children[idx + 1].pod ELSE <<>>
          IN  /\ \A i \in 1..Len(ttrace.delivered) : Some(ttrace.delivered[i]) \in held
              /\ \A i \in 1..Len(ttrace.painted) : Some(ttrace.painted[i]) \in held
              /\ (ttrace.op = "layout" /\ selected >= n) => ttrace.size = "max"
              /\ (ttrace.op = "paint" /\ selected >= n)
                    => ttrace.painted =
                          (IF body.transition # None
                           THEN At(body.transition[1].previous_idx) ELSE <<>>)
              /\ (ttrace.op = "paint" /\ body.transition # None
                    /\ body.transition[1].previous_idx >= n)
                    => ttrace.painted = At(selected)

\* C27 happens: paint ran with tabs left and a transition whose previous
\* index is beyond the end of the child list.
C27_Witness ==
    /\ ttrace.op = "paint" /\ ttrace.forwarded
    /\ BodyOf(tabs).children # <<>>
    /\ BodyOf(tabs).transition # None
    /\ BodyOf(tabs).transition[1].previous_idx >= Len(BodyOf(tabs).children)

\* C28: the body of a Running node holds a transition only with an elapsed
\* time of 0 or more and less than its duration.
C28_TransitionOnlyWhileLive ==
    (tabs.kind = "Running" /\ BodyOf(tabs).transition # None)
       => LET trans == BodyOf(tabs).transition[1]
          IN  0 <= trans.current_time /\ trans.current_time < trans.length

\* C28 happens: an animation frame took a transition to its duration or
\* beyond and the body holds none.
C28_Witness ==
    /\ ttrace.op = "lifecycle" /\ ttrace.event = "AnimFrame"
    /\ ttrace.transition0 # None
    /\ ttrace.transition0[1].current_time > 0
    /\ ttrace.transition0[1].current_time + ttrace.interval >= ttrace.transition0[1].length
    /\ BodyOf(tabs).transition = None

\* An update that found the selected index changed.
Switched ==
    /\ ttrace.op = "update" /\ ttrace.forwarded
    /\ ttrace.old_selected # Some(ttrace.seen[1].selected)

\* What C29 says of one operation: an update that finds the selected index
\* changed leaves a transition from the old index with no time elapsed, a
\* duration of 250 ms and the direction old < new, and asks for an animation
\* frame; an animation frame that finds a transition adds its interval to
\* the elapsed time, and keeps the transition and asks for another frame if
\* that is less than the duration, and drops the transition if not.
TransitionStep ==
    /\ Switched
          => /\ BodyOf(tabs).transition
                   = Some([previous_idx |-> ttrace.old_selected[1],
                           current_time |-> 0,
                           length |-> 250 * MILLIS,
                           increasing |-> ttrace.old_selected[1] < ttrace.seen[1].selected])
             /\ Count(ttrace.requests, "request_anim_frame") = 1
    /\ (ttrace.op = "lifecycle" /\ ttrace.event = "AnimFrame" /\ ttrace.transition0 # None)
          => LET was == ttrace.transition0[1]
                 elapsed == was.current_time + ttrace.interval
             IN  IF elapsed < was.length
                 THEN /\ BodyOf(tabs).transition = Some([was EXCEPT !.current_time = elapsed])
                      /\ ttrace.requests = <<"request_anim_frame">>
                 ELSE /\ BodyOf(tabs).transition = None
                      /\ ttrace.requests = <<>>

\* C29: every operation is as TransitionStep says, and, animation frames
\* with a positive interval being delivered again and again, a transition
\* the body holds is dropped unless an update that finds the selected index
\* changed puts a new one in its place.
C29_TransitionRunsAndEnds ==
    /\ []TransitionStep
    /\ (tabs.kind = "Running" /\ BodyOf(tabs).transition # None)
          ~> (tabs.kind = "Running" /\ (BodyOf(tabs).transition = None \/ Switched))

\* C29 happens: the second animation frame of a transition took it to its
\* duration and it was dropped.
C29_Witness ==
    /\ ttrace.op = "lifecycle" /\ ttrace.event = "AnimFrame"
    /\ ttrace.interval = 125 * MILLIS
    /\ ttrace.transition0 # None
    /\ ttrace.transition0[1].current_time = 125 * MILLIS
    /\ BodyOf(tabs).transition = None

\* C30 as claimed: paint draws exactly two bodies, those of the previous
\* and of the selected tab, two different tabs, when the body holds a
\* transition, and exactly one, that of the selected tab, when it holds
\* none.
C30_TwoBodiesInTransition ==
    (ttrace.op = "paint" /\ ttrace.forwarded)
       => LET body == BodyOf(tabs)
              selected == ttrace.seen[1].selected
          IN  IF body.transition # None
              THEN /\ Len(ttrace.painted) = 2
                   /\ body.transition[1].previous_idx # selected
                   /\ Some(ttrace.painted[1])
                         = Child(body.children, body.transition[1].previous_idx)
                   /\ Some(ttrace.painted[2]) = Child(body.children, selected)
              ELSE /\ Len(ttrace.painted) = 1
                   /\ Some(ttrace.painted[1]) = Child(body.children, selected)

\* C30 amended: paint draws first the body of the previous tab, if the body
\* holds a transition and the child list has a body at the previous index,
\* then the body of the selected tab, if the child list has a body at the
\* selected index, and nothing else; the previous index of a transition is
\* not the selected index, so there are at most two bodies, of different
\* tabs, with a transition, and at most one without.
C30_PaintsPreviousAndSelected ==
    (ttrace.op = "paint" /\ ttrace.forwarded)
       => LET body == BodyOf(tabs)
              n == Len(body.children)
              selected == ttrace.seen[1].selected
              At(idx) == IF idx < n THEN body.children[idx + 1].pod ELSE <<>>
          IN  /\ body.transition # None
                    => /\ body.transition[1].previous_idx # selected
                       /\ ttrace.painted
                             = At(body.transition[1].previous_idx) \o At(selected)
                       /\ Len(ttrace.painted) = 2 => ttrace.painted[1] # ttrace.painted[2]
              /\ body.transition = None => ttrace.painted = At(selected)

\* C30 happens: paint ran with a transition and drew two bodies.
C30_Witness ==
    /\ ttrace.op = "paint" /\ ttrace.forwarded
    /\ BodyOf(tabs).transition # None
    /\ Len(ttrace.painted) = 2

\* The pods of a list of pods, as a set.
PodSet(pods) == {pods[i] : i \in 1..Len(pods)}

\* C35: an update of a Running node in which the body made its tabs anew
\* forwards the update to the pods kept from the tabs before, in the order
\* of the tabs now, and to no pod made in that call; an update in which the
\* tabs stay forwards it to every tab pod.
C35_UpdateOnlyToInitialised ==
    (ttrace.op = "update" /\ ttrace.from = "Running") =>
        LET body == BodyOf(tabs)
            before == PodSet(ChildPods([children |-> ttrace.children0]))
            kept == SelectSeq(ChildPods(body), LAMBDA p : p \in before)
        IN  IF ttrace.remade
            THEN /\ ttrace.delivered = kept
                 /\ \A p \in PodSet(ttrace.delivered) : p < ttrace.next0
                 /\ \A p \in PodSet(ChildPods(body)) :
                      p >= ttrace.next0 => p \notin PodSet(ttrace.delivered)
            ELSE ttrace.delivered = ChildPods(body)

\* C35 happens: an update made one tab and kept another, and the kept one
\* alone was updated.
C35_Witness ==
    /\ ttrace.op = "update"
    /\ ttrace.from = "Running"
    /\ ttrace.remade
    /\ Len(ttrace.made) = 1
    /\ Len(ttrace.delivered) = 1
    /\ Len(ChildPods(BodyOf(tabs))) = 2

\* A Tabs node over a policy that has no body for some of its keys.
InitNoBody ==
    /\ \E nobody \in SUBSET TabKeys \ {{}} : tabs = Complete(PartialTabs(nobody))
    /\ tdata \in TData
    /\ tnext = 1
    /\ tdue = FALSE
    /\ ttrace = TabsOp("new", "none", 0, TabsOut(tabs, tdata, tnext))

NextNoBody ==
    \/ TabsAdded
    \/ TabsPointerDown
    \/ TabsUpdate
    \/ TabsLayout
    \/ TabsPaint
    \/ TabsSetData

\* The indices (from 0) of the entries of the body whose key the policy has
\* no body for.
NoBodyEntries == {i \in 0..(Len(BodyOf(tabs).children) - 1) :
                    BodyOf(tabs).children[i + 1].key \in tabs.tabs.nobody}

\* The body holds an entry for every key of the data, at the key's index.
EntryForEveryKey == KeysOf(BodyOf(tabs).children) = KeysFromSet(tabs.tabs, tdata)

(***************************************************************************)
(* C33.  As claimed: once the tabs are made and no update is due, the body *)
(* holds an entry for every key at the key's index, also for a key         *)
(* body_from_key gave None for, and the entry of such a key carries a      *)
(* body, which is laid out and painted when the tab is selected.           *)
(***************************************************************************)
C33_PlaceholderForMissingBody ==
    (tabs.kind = "Running" /\ ~tdue) =>
        /\ EntryForEveryKey
        /\ \A i \in NoBodyEntries :
              /\ Child(BodyOf(tabs).children, i) # None
              /\ (ttrace.op = "layout" /\ SelectedOf(tabs) = i) => ttrace.size = "child"
              /\ (ttrace.op = "paint" /\ SelectedOf(tabs) = i) =>
                    \E k \in 1..Len(ttrace.painted) :
                       Some(ttrace.painted[k]) = Child(BodyOf(tabs).children, i)

\* What the code does: the entry of such a key is there, with no body;
\* when its tab is selected layout gives the largest size allowed and paint
\* paints nothing of it.
C33_EntryWithoutBody ==
    (tabs.kind = "Running" /\ ~tdue) =>
        /\ EntryForEveryKey
        /\ \A i \in NoBodyEntries :
              /\ Child(BodyOf(tabs).children, i) = None
              /\ (ttrace.op = "layout" /\ SelectedOf(tabs) = i) => ttrace.size = "max"
              /\ (ttrace.op = "paint" /\ SelectedOf(tabs) = i /\ ttrace.transition0 = None) =>
                    ttrace.painted = <<>>

(***************************************************************************)
(* TabBar::layout and TabBar::find_idx (widget/tabs.rs).  Lengths along    *)
(* the major axis are f64 values, written here in twentieths of a pixel,   *)
(* so that two lengths can differ and still be the same once scaled by 10  *)
(* and converted to i64.                                                   *)
(***************************************************************************)
\* the tabs of the bar, at most
MaxTabs == 3

\* the extent of a tab along the major axis, in twentieths of a pixel, at most
MaxExtent == 2

\* (x * 10.) as i64 for a length of x twentieths of a pixel: scaled by ten
\* and truncated towards zero
Scaled(x) == IF x >= 0 THEN (x * 10) \div 20 ELSE -(((-x) * 10) \div 20)

\* A tab pod that has not been laid out: its layout rect is empty, at the
\* origin.
TabPod(extent) == [extent |-> extent, origin |-> 0, size |-> 0]

RECURSIVE LayoutFrom(_, _, _)

\* The loop of TabBar::layout from the i-th tab on: the tab's rect starts
\* where the tabs before it end.
LayoutFrom(pods, i, major) ==
    IF i > Len(pods) THEN pods
    ELSE LayoutFrom([pods EXCEPT ![i] = [@ EXCEPT !.origin = major, !.size = pods[i].extent]],
                    i + 1, major + pods[i].extent)

\* TabBar::layout: the tabs afterwards
TabBarLayout(pods) == LayoutFrom(pods, 1, 0)

\* The key find_idx gives a tab: its far edge, scaled
FarKey(pod) == Scaled(pod.origin + pod.size)

\* slice::binary_search_by_key: Ok(idx) of a match, of any one when there
\* are more, or Err(idx) of the place where the key could be inserted.
BinarySearchByKey(keys, key) ==
    LET matches == {i \in 0..(Len(keys) - 1) : keys[i + 1] = key}
    IN  IF matches # {}
        THEN {[ok |-> TRUE, idx |-> i] : i \in matches}
        ELSE {[ok |-> FALSE, idx |-> Cardinality({i \in 1..Len(keys) : keys[i] < key})]}

\* TabBar::find_idx: what it may return for a position on the major axis
FindIdxOf(pods, major_pix) ==
    LET keys == [i \in 1..Len(pods) |-> FarKey(pods[i])]
    IN  { IF r.ok \/ r.idx < Len(pods) THEN Some(r.idx) ELSE None :
            r \in BinarySearchByKey(keys, Scaled(major_pix)) }

\* The positions find_idx is asked for: from just before the bar to just
\* beyond its longest extent.
Positions == (-1)..(MaxTabs * MaxExtent + 1)

\* TabBar::new and TabsState::new: no tabs, no hot tab, tab 0 selected;
\* with them what is recorded of the last operation on the bar.
HitNew ==
    [op |-> "new", tabs |-> <<>>, laid |-> FALSE, hot |-> None, selected |-> 0,
     event |-> "none", is_hot |-> FALSE, pos |-> 0, found |-> None,
     selected0 |-> 0, hot0 |-> None, requests |-> <<>>]

\* What is recorded of an operation on the bar with no pointer event.
HitOp(op, pos, found) ==
    [hit EXCEPT !.op = op, !.event = "none", !.is_hot = FALSE, !.pos = pos, !.found = found,
                !.selected0 = hit.selected, !.hot0 = hit.hot, !.requests = <<>>]

InitHit ==
    /\ \E extents \in SeqUpTo(0..MaxExtent, MaxTabs) :
         hit = [HitNew EXCEPT !.tabs = [i \in 1..Len(extents) |-> TabPod(extents[i])]]

\* TabBar::layout
HitLayout ==
    /\ hit' = [HitOp("layout", 0, None) EXCEPT !.tabs = TabBarLayout(@), !.laid = TRUE]
    /\ UNCHANGED <<contentVars, scopeVars, hostVars, pairVars, tabsVars, subVars>>

\* TabBar::find_idx for a pointer position
HitFindIdx ==
    /\ \E pos \in Positions : \E found \in FindIdxOf(hit.tabs, pos) :
         hit' = HitOp("find_idx", pos, found)
    /\ UNCHANGED <<contentVars, scopeVars, hostVars, pairVars, tabsVars, subVars>>

\* TabBar::event: an event of any kind reaches the bar, a pointer event
\* with its position; the bar is hot or not.
HitEvent ==
    /\ \E event \in Events, pos \in Positions, is_hot \in BOOLEAN :
         \E found \in FindIdxOf(hit.tabs, pos) :
            LET pointer == event \in {"MouseDown", "MouseMove"}
                r == TabBarEventFound(hit.hot, event, IF pointer THEN found ELSE None,
                                      is_hot, [selected |-> hit.selected])
            IN  /\ pointer \/ (pos = 0 /\ ~is_hot)
                /\ hit' = [hit EXCEPT !.op = "event", !.event = event, !.is_hot = is_hot,
                                      !.pos = pos,
                                      !.found = (IF pointer THEN found ELSE None),
                                      !.selected0 = hit.selected, !.hot0 = hit.hot,
                                      !.selected = r.state.selected, !.hot = r.hot,
                                      !.requests = r.requests]
    /\ UNCHANGED <<contentVars, scopeVars, hostVars, pairVars, tabsVars, subVars>>

NextHit == HitLayout \/ HitFindIdx \/ HitEvent

\* The lowest index of a tab whose scaled far edge is at or beyond the
\* scaled position, if there is one.
LowestAtOrBeyond(pods, major_pix) ==
    LET at == {i \in 0..(Len(pods) - 1) : FarKey(pods[i + 1]) >= Scaled(major_pix)}
    IN  IF at = {} THEN None ELSE Some(CHOOSE i \in at : \A j \in at : i <= j)

(***************************************************************************)
(* C31.  As claimed: find_idx returns the lowest index of a tab whose far  *)
(* edge, scaled by 10 and truncated, is at or beyond the scaled position,  *)
(* and None when there is no such tab, for tabs that have been laid out,   *)
(* tabs that share a far edge included.                                    *)
(***************************************************************************)
C31_LowestTabAtPosition ==
    (hit.op = "find_idx" /\ hit.laid) => hit.found = LowestAtOrBeyond(hit.tabs, hit.pos)

\* With far edges that differ once scaled the claim holds.
C31_LowestWhenEdgesDiffer ==
    (/\ hit.op = "find_idx"
     /\ \A i, j \in 1..Len(hit.tabs) : i # j => FarKey(hit.tabs[i]) # FarKey(hit.tabs[j])) =>
      hit.found = LowestAtOrBeyond(hit.tabs, hit.pos)

(***************************************************************************)
(* C32.  A pointer-down on the bar over a tab, the tab find_idx names for  *)
(* the position, leaves that tab selected; a pointer-down over no tab and  *)
(* an event of any other kind leave the selection as it was.  A            *)
(* pointer-move leaves the hot tab the one under the pointer when the bar  *)
(* is hot and none when it is not, and asks for a paint exactly when the   *)
(* hot tab changed; no other event changes the hot tab.                    *)
(***************************************************************************)
C32_PointerDownSelects ==
    hit.op = "event" =>
        /\ (hit.event = "MouseDown" /\ hit.found # None) => hit.selected = hit.found[1]
        /\ (hit.event = "MouseDown" /\ hit.found = None) => hit.selected = hit.selected0
        /\ hit.event # "MouseDown" => hit.selected = hit.selected0
        /\ hit.event = "MouseMove" =>
              /\ hit.hot = (IF hit.is_hot THEN hit.found ELSE None)
              /\ (hit.requests # <<>>) = (hit.hot # hit.hot0)
        /\ hit.event # "MouseMove" => (hit.hot = hit.hot0 /\ hit.requests = <<>>)

\* A pointer moved over a tab that is not the selected one: the tab is hot,
\* the selection is as it was.
C32_Witness ==
    /\ hit.op = "event"
    /\ hit.event = "MouseMove"
    /\ hit.laid
    /\ hit.hot # None
    /\ hit.hot # hit.hot0
    /\ hit.hot[1] # hit.selected
    /\ hit.selected0 # 0

(***************************************************************************)
(* Sub-window synchronisation (widget/sub_window.rs): a SubWindowPort in   *)
(* the window that owns the data and a SubWindowHost at the root of the    *)
(* sub-window, each telling the other of a change of the data by a         *)
(* command.  The payload of a command is a Box<dyn Any>: it holds a value  *)
(* of the data type U or of another type.                                  *)
(***************************************************************************)
\* changes of the data made by the owner or by the sub-window's widgets, at most
MaxInputs == 2

\* commands with a payload of another type that wait together, at most
MaxForeign == 1

\* SubWindowPort::new(id, host_id)
SubWindowPortNew(id, host_id) == [id |-> id, host_id |-> host_id]

\* SubWindowHost::new(id, port_id, data, child)
SubWindowHostNew(id, port_id, d) == [id |-> id, port_id |-> port_id, data |-> d]

\* SubWindowRequirement::make_requirement_and_port; `next` is what
\* WidgetId::next() gives first.
MakeRequirementAndPort(d, next) ==
    LET host_id == next
        port_id == next + 1
    IN  [host |-> SubWindowHostNew(host_id, port_id, d),
         requirement |-> [host_id |-> next + 2, port_id |-> next + 3],
         port |-> SubWindowPortNew(port_id, host_id)]

\* A payload holding a value of the data type U
Boxed(val) == [type |-> "U", val |-> val]

\* A payload holding a value of another type
OtherPayload == [type |-> "other", val |-> 0]

\* Selector::with(payload), submitted to a target
Command(selector, payload, target) ==
    [selector |-> selector, payload |-> payload, target |-> target]

\* Box<dyn Any>::downcast_ref::<U>
DowncastRef(payload) == IF payload.type = "U" THEN Some(payload.val) ELSE None

\* A faulty variant of SubWindowPortEvent: the update from the host is
\* marked handled and not stored.
SubWindowPortEventDropping(self, cmd, d) ==
    IF cmd.selector = "HOST_TO_PORT"
    THEN [data |-> d, handled |-> TRUE]
    ELSE [data |-> d, handled |-> FALSE]

\* SubWindowPort::event for a command
SubWindowPortEvent(self, cmd, d) ==
    IF cmd.selector = "HOST_TO_PORT"
    THEN [data |-> (IF DowncastRef(cmd.payload) # None
                    THEN DowncastRef(cmd.payload)[1] ELSE d),
          handled |-> TRUE]
    ELSE [data |-> d, handled |-> FALSE]

\* SubWindowPort::update: the commands it submits
SubWindowPortUpdate(self, old_data, d) ==
    IF old_data # d
    THEN <<Command("PORT_TO_HOST", Boxed(d), self.host_id)>>
    ELSE <<>>

\* A faulty variant of SubWindowHostEvent: a payload of another type is
\* passed on to the child as an event.
SubWindowHostEventPassingOn(self, cmd, after) ==
    IF cmd.selector = "PORT_TO_HOST" /\ DowncastRef(cmd.payload) # None
    THEN [self |-> [self EXCEPT !.data = DowncastRef(cmd.payload)[1]],
          child |-> <<"update">>, handled |-> TRUE, submitted |-> <<>>]
    ELSE [self |-> [self EXCEPT !.data = after],
          child |-> <<"event", "update">>, handled |-> FALSE,
          submitted |-> (IF self.data # after
                         THEN <<Command("HOST_TO_PORT", Boxed(after), self.port_id)>>
                         ELSE <<>>)]

\* SubWindowHost::event.  `cmd` is the command of the event, or a command
\* with the selector "none" for an event of another kind; the child, when it
\* gets the event, leaves the host's data as `after`.
SubWindowHostEvent(self, cmd, after) ==
    IF cmd.selector = "PORT_TO_HOST"
    THEN IF DowncastRef(cmd.payload) # None
         THEN [self |-> [self EXCEPT !.data = DowncastRef(cmd.payload)[1]],
               child |-> <<"update">>, handled |-> TRUE, submitted |-> <<>>]
         ELSE [self |-> self, child |-> <<>>, handled |-> TRUE, submitted |-> <<>>]
    ELSE [self |-> [self EXCEPT !.data = after],
          child |-> <<"event", "update">>, handled |-> FALSE,
          submitted |-> (IF self.data # after
                         THEN <<Command("HOST_TO_PORT", Boxed(after), self.port_id)>>
                         ELSE <<>>)]

\* The commands of a list addressed to a widget identity, in the order
\* they were submitted.
AddressedTo(cmds, id) == SelectSeq(cmds, LAMBDA c : c.target = id)

\* What is recorded of an operation: the operation, the command it handled
\* if any, the receiver's data before, whether the event was marked
\* handled, what the child was given, how many commands were submitted;
\* and, over all operations, the changes of the data made from outside, the
\* sync commands submitted, and whether commands of both directions have
\* been waiting at the same time.
SubOp(op, cmd, data0, handled, child, submitted, changed) ==
    [op |-> op, cmd |-> cmd, data0 |-> data0, handled |-> handled, child |-> child,
     submitted |-> Len(submitted),
     inputs |-> swtrace.inputs + (IF changed THEN 1 ELSE 0),
     sent |-> swtrace.sent + Len(submitted),
     crossed |-> (swtrace.crossed \/ (tohost' # <<>> /\ toport' # <<>>))]

\* The post office: the commands submitted wait, those for the host and
\* those for the port each in the order they were submitted; a command
\* addressed to no widget is dropped.
Submit(submitted, host_rest, port_rest) ==
    /\ tohost' = host_rest \o AddressedTo(submitted, shost.id)
    /\ toport' = port_rest \o AddressedTo(submitted, port.id)

InitSub ==
    /\ \E d \in Vals : \E next \in 1..2 :
         LET made == MakeRequirementAndPort(d, next)
         IN  /\ port = made.port
             /\ shost = made.host
             /\ sdata = d
             /\ sold = d
    /\ tohost = <<>>
    /\ toport = <<>>
    /\ swtrace = [op |-> "new", cmd |-> None, data0 |-> sdata, handled |-> FALSE,
                  child |-> <<>>, submitted |-> 0, inputs |-> 0, sent |-> 0,
                  crossed |-> FALSE]

\* The owner of the data changes it; the port is updated before anything
\* else reaches it.
PortInput ==
    /\ sold = sdata
    /\ swtrace.inputs < MaxInputs
    /\ \E d \in Vals \ {sdata} : sdata' = d
    /\ Submit(<<>>, tohost, toport)
    /\ swtrace' = SubOp("port_input", None, sdata, FALSE, <<>>, <<>>, TRUE)
    /\ UNCHANGED <<port, sold, shost, contentVars, scopeVars, hostVars, pairVars, tabsVars, hitVars>>

\* SubWindowPort::update, which the port's pod calls when the data is not
\* the data of the last update
PortUpdate ==
    /\ sold # sdata
    /\ LET submitted == SubWindowPortUpdate(port, sold, sdata)
       IN  /\ Submit(submitted, tohost, toport)
           /\ swtrace' = SubOp("port_update", None, sold, FALSE, <<>>, submitted, FALSE)
    /\ sold' = sdata
    /\ UNCHANGED <<port, sdata, shost, contentVars, scopeVars, hostVars, pairVars, tabsVars, hitVars>>

\* The command that has waited longest for the port is delivered to it.
PortDeliver ==
    /\ toport # <<>>
    /\ sold = sdata
    /\ LET cmd == Head(toport)
           r == SubWindowPortEvent(port, cmd, sdata)
       IN  /\ sdata' = r.data
           /\ Submit(<<>>, tohost, Tail(toport))
           /\ swtrace' = SubOp("port_event", Some(cmd), sdata, r.handled, <<>>, <<>>, FALSE)
    /\ UNCHANGED <<port, sold, shost, contentVars, scopeVars, hostVars, pairVars, tabsVars, hitVars>>

\* The command that has waited longest for the host is delivered to it.
HostDeliver ==
    /\ tohost # <<>>
    /\ LET cmd == Head(tohost)
           r == SubWindowHostEvent(shost, cmd, shost.data)
       IN  /\ shost' = r.self
           /\ Submit(r.submitted, Tail(tohost), toport)
           /\ swtrace' = SubOp("host_event", Some(cmd), shost.data, r.handled, r.child,
                               r.submitted, FALSE)
    /\ UNCHANGED <<port, sdata, sold, contentVars, scopeVars, hostVars, pairVars, tabsVars, hitVars>>

\* An event that is no command reaches the host; the sub-window's widgets
\* may change the data.
HostChildEvent ==
    /\ \E after \in Vals :
         LET r == SubWindowHostEvent(shost, Command("none", OtherPayload, shost.id), after)
         IN  /\ after # shost.data => swtrace.inputs < MaxInputs
             /\ shost' = r.self
             /\ Submit(r.submitted, tohost, toport)
             /\ swtrace' = SubOp("host_event", None, shost.data, r.handled, r.child,
                                 r.submitted, after # shost.data)
    /\ UNCHANGED <<port, sdata, sold, contentVars, scopeVars, hostVars, pairVars, tabsVars, hitVars>>

\* Some widget submits a sync command whose payload is not of the type U.
ForeignCommand ==
    /\ Cardinality({i \in 1..Len(tohost) : tohost[i].payload.type # "U"})
         + Cardinality({i \in 1..Len(toport) : toport[i].payload.type # "U"}) < MaxForeign
    /\ \E c \in {Command("PORT_TO_HOST", OtherPayload, shost.id),
                 Command("HOST_TO_PORT", OtherPayload, port.id)} :
         Submit(<<c>>, tohost, toport)
    /\ swtrace' = SubOp("foreign", None, sdata, FALSE, <<>>, <<>>, FALSE)
    /\ UNCHANGED <<port, sdata, sold, shost, contentVars, scopeVars, hostVars, pairVars, tabsVars, hitVars>>

NextSub ==
    \/ PortInput
    \/ PortUpdate
    \/ PortDeliver
    \/ HostDeliver
    \/ HostChildEvent
    \/ ForeignCommand

\* No command waits and the port has been updated.
Settled == tohost = <<>> /\ toport = <<>> /\ sold = sdata

(***************************************************************************)
(* C34.  A sync command whose payload is not of the data type is a no-op   *)
(* at its receiver: the host-to-port command at the port and the           *)
(* port-to-host command at the host leave the receiver's data as it was,   *)
(* give the child nothing, submit no command, and mark the event handled.  *)
(***************************************************************************)
C34_BadPayloadIsNoOp ==
    (/\ swtrace.op \in {"port_event", "host_event"}
     /\ swtrace.cmd # None
     /\ DowncastRef(swtrace.cmd[1].payload) = None) =>
      /\ swtrace.op = "port_event" => sdata = swtrace.data0 /\ sold = sdata
      /\ swtrace.op = "host_event" => shost.data = swtrace.data0
      /\ swtrace.child = <<>>
      /\ swtrace.submitted = 0
      /\ swtrace.handled

\* C34 happens: the host handled a port-to-host command with a payload of
\* another type while its data differed from the port's.
C34_Witness ==
    /\ swtrace.op = "host_event"
    /\ swtrace.cmd # None
    /\ swtrace.cmd[1].selector = "PORT_TO_HOST"
    /\ DowncastRef(swtrace.cmd[1].payload) = None
    /\ swtrace.handled
    /\ shost.data # sdata

(***************************************************************************)
(* C39.  The synchronisation settles.  The sync commands submitted are at  *)
(* most twice the changes made to the data from outside, on either side,   *)
(* so that no command is answered without end; and whenever no command     *)
(* waits and the port has been updated, the port's data is the host's      *)
(* data.  Commands for the host and commands for the port are delivered    *)
(* in any order relative to each other.                                    *)
(***************************************************************************)
C39_SyncSettles ==
    /\ swtrace.sent <= 2 * swtrace.inputs
    /\ Settled => sdata = shost.data

\* C39 happens: the data was changed on both sides, commands of both
\* directions waited at the same time, and all has settled.
C39_Witness ==
    /\ swtrace.crossed
    /\ swtrace.inputs = MaxInputs
    /\ swtrace.sent >= 3
    /\ Settled
    /\ sdata = shost.data
    /\ sdata # 0

(***************************************************************************)
(* The specifications: each part runs with the other parts at rest.        *)
(***************************************************************************)
ContentAtRest ==
    /\ content = StaticDefault
    /\ prev = StaticDefault
    /\ data = [keys |-> <<>>, flag |-> FALSE]
    /\ phase = "built"
    /\ nextId = 1
    /\ last = NoOp

ScopeAtRest ==
    /\ scope = ScopeNew(LensPolicy)
    /\ input = 0
    /\ strace = NoDispatch(0)

HostAtRest ==
    /\ host = BindingHostNew([prop |-> 0])
    /\ bdata = [field |-> 0, rest |-> FALSE]
    /\ commands = 0
    /\ btrace = NoHostDispatch(host, bdata)

PairAtRest ==
    /\ phost = PairHostNew([p0 |-> 0, p1 |-> 0],
                           <<LensBindingNew("f0", "p0"), LensBindingNew("f1", "p1")>>)
    /\ pdata = [f0 |-> 0, f1 |-> 0]
    /\ ptrace = [op |-> "new", steps |-> <<>>, host0 |-> phost, data0 |-> pdata]

TabsAtRest ==
    /\ tabs = Building(0)
    /\ tdata = <<>>
    /\ tnext = 1
    /\ tdue = FALSE
    /\ ttrace = TabsOp("new", "none", 0, TabsOut(tabs, tdata, tnext))

HitAtRest ==
    hit = [op |-> "new", tabs |-> <<>>, laid |-> FALSE, hot |-> None, selected |-> 0,
           event |-> "none", is_hot |-> FALSE, pos |-> 0, found |-> None,
           selected0 |-> 0, hot0 |-> None, requests |-> <<>>]

SubAtRest ==
    /\ port = SubWindowPortNew(2, 1)
    /\ shost = SubWindowHostNew(1, 2, 0)
    /\ sdata = 0
    /\ sold = 0
    /\ tohost = <<>>
    /\ toport = <<>>
    /\ swtrace = [op |-> "new", cmd |-> None, data0 |-> 0, handled |-> FALSE,
                  child |-> <<>>, submitted |-> 0, inputs |-> 0, sent |-> 0,
                  crossed |-> FALSE]

InitContent == Init /\ ScopeAtRest /\ HostAtRest /\ PairAtRest /\ TabsAtRest
        /\ HitAtRest /\ SubAtRest

SpecContent == InitContent /\ [][Next]_vars

InitScopeOnly == InitScope /\ ContentAtRest /\ HostAtRest /\ PairAtRest /\ TabsAtRest
        /\ HitAtRest /\ SubAtRest

SpecScope == InitScopeOnly /\ [][NextScope]_vars

InitBindingOnly == InitBinding /\ ContentAtRest /\ ScopeAtRest /\ PairAtRest /\ TabsAtRest
        /\ HitAtRest /\ SubAtRest

SpecBinding == InitBindingOnly /\ [][NextBinding]_vars

InitPairOnly == InitPair /\ ContentAtRest /\ ScopeAtRest /\ HostAtRest /\ TabsAtRest
        /\ HitAtRest /\ SubAtRest

SpecPair == InitPairOnly /\ [][NextPair]_vars

InitTabsOnly == InitTabs /\ ContentAtRest /\ ScopeAtRest /\ HostAtRest /\ PairAtRest
        /\ HitAtRest /\ SubAtRest

SpecTabs == InitTabsOnly /\ [][NextTabs]_vars

\* The Tabs node dispatched events and lifecycle events of every kind,
\* WidgetAdded more than once too.
NextRouting ==
    \/ TabsEventAny
    \/ TabsLifecycleAny
    \/ TabsAnimFrame
    \/ TabsUpdate
    \/ TabsLayout
    \/ TabsPaint
    \/ TabsSetData

SpecRouting == InitTabsOnly /\ [][NextRouting]_vars

\* The Tabs node with selections, updates and animation frames only; the
\* frames of an animation that was asked for keep coming.
NextAnim ==
    \/ TabsAdded
    \/ TabsPointerDown
    \/ TabsUpdate
    \/ TabsAnimFrame
    \/ TabsAnimFrameZero

SpecAnim == InitTabsOnly /\ [][NextAnim]_vars /\ WF_vars(TabsAnimFrame)


\* The BindingHost in the phases that defer a divergence, with the data
\* changing in between; every command submitted is delivered.
NextDeferred ==
    \/ HostLifecycle
    \/ HostLayout
    \/ HostUpdate
    \/ HostApplyBindings
    \/ SetData

SpecDeferred == InitBindingOnly /\ [][NextDeferred]_vars /\ WF_vars(HostApplyBindings)


InitAnyOnly ==
    /\ InitAny
    /\ host = BindingHostNew([prop |-> 0])
    /\ bdata = [field |-> 0, rest |-> FALSE]
    /\ btrace = NoHostDispatch(host, bdata)
    /\ ContentAtRest /\ ScopeAtRest /\ TabsAtRest /\ HitAtRest /\ SubAtRest

SpecAny == InitAnyOnly /\ [][NextAny]_vars


InitNoBodyOnly == InitNoBody /\ ContentAtRest /\ ScopeAtRest /\ HostAtRest /\ PairAtRest
        /\ HitAtRest /\ SubAtRest

SpecNoBody == InitNoBodyOnly /\ [][NextNoBody]_vars

InitHitOnly ==
    /\ InitHit
    /\ ContentAtRest /\ ScopeAtRest /\ HostAtRest /\ PairAtRest /\ TabsAtRest /\ SubAtRest

SpecHit == InitHitOnly /\ [][NextHit]_vars


InitSubOnly ==
    /\ InitSub
    /\ ContentAtRest /\ ScopeAtRest /\ HostAtRest /\ PairAtRest /\ TabsAtRest /\ HitAtRest

SpecSub == InitSubOnly /\ [][NextSub]_vars

====
